---- MODULE Spec2Model ----
(***************************************************************************)
(* Amon Master: the Probe object model (master/lib/probes.js), the generic *)
(* UFDS model helpers (ufdsmodel.js: list/get/put/delete with read-through *)
(* caches) and the account lookup of the Master app (master/lib/app.js).   *)
(*                                                                         *)
(* JavaScript values are modelled as strings; "" stands for a value that   *)
(* is absent or empty (undefined and '' are both falsy in every test the   *)
(* code makes on these fields).                                            *)
(***************************************************************************)
EXTENDS Naturals, Integers, Sequences, FiniteSets, TLC

\* ------------------------------------------------------------------------
\* Value domains
\* ------------------------------------------------------------------------

NoVal == ""

\* Strings matching UUID_RE, and one that does not.
UuidBob == "bbbbbbbb-bbbb-bbbb-bbbb-bbbbbbbbbbbb"
UuidAlice == "aaaaaaaa-aaaa-aaaa-aaaa-aaaaaaaaaaaa"
MachineA == "11111111-1111-1111-1111-111111111111"
ServerA == "22222222-2222-2222-2222-222222222222"
NotUuid == "not-a-uuid"

UuidStrings == {UuidBob, UuidAlice, MachineA, ServerA}

\* UUID_RE.test(s)
UUID_RE(s) == s \in UuidStrings

\* Strings matching Probe._nameRegex, and one that does not ("9lives").
NameP == "whistlelog"
NameQ == "smartlogin"
BadName == "9lives"
MonitorW == "whistle"

NameStrings == {NameP, NameQ, MonitorW}

\* Probe._nameRegex.test(name)
NameRegex(s) == s \in NameStrings

\* The probe type registry: module.exports of the plugins index.
PluginTypes == {"logscan", "machine-up"}

\* plugins[type] is defined
PluginDefined(type) == type \in PluginTypes

\* plugins[type].runInGlobal
RunInGlobal(type) == type = "machine-up"

\* JavaScript values a probe config can take in the public form, and the
\* JSON texts a directory record can hold in its config attribute.
ObjGood == "OBJ_GOOD"
ObjBad == "OBJ_BAD"
NumZero == "NUM_ZERO"
JsonGood == "{good}"
JsonGoodSpaced == "{ good }"
JsonBad == "{bad}"
JsonZero == "0"
NotJson == "{not json"
ParseError == "PARSE_ERROR"

\* JavaScript truthiness of a config value (0 is falsy, an object is truthy).
Truthy(v) == v # NoVal /\ v # NumZero

\* JSON.stringify(value)
JSONstringify(v) ==
  CASE v = ObjGood -> JsonGood
    [] v = ObjBad -> JsonBad
    [] v = NumZero -> JsonZero
    [] OTHER -> NoVal

\* JSON.parse(text); ParseError stands for a thrown SyntaxError.
JSONparse(s) ==
  CASE s = JsonGood -> ObjGood
    [] s = JsonGoodSpaced -> ObjGood
    [] s = JsonBad -> ObjBad
    [] s = JsonZero -> NumZero
    [] OTHER -> ParseError

\* ProbeType.validateConfig(config) returns without throwing.
ValidateConfigOk(type, config) == config = ObjGood

\* ------------------------------------------------------------------------
\* Probe model (master/lib/probes.js)
\* ------------------------------------------------------------------------

ProbeObjectclass == "amonprobe"

NoDn == <<>>

\* Probe.dn(user, monitor, name): the DN is determined by the three parts.
ProbeDn(user, monitor, name) == <<user, monitor, name>>

\* Probe.parseDn(dn)
ParseDn(dn) ==
  IF Len(dn) = 3
    THEN [user |-> dn[1], monitor |-> dn[2], name |-> dn[3]]
    ELSE [user |-> NoVal, monitor |-> NoVal, name |-> NoVal]

\* parent DN of a probe: format('amonmonitor=%s, %s', monitorName, req._user.dn)
ParentDn(user, monitor) == <<user, monitor>>

NoRaw ==
  [amonprobe |-> NoVal, type |-> NoVal, config |-> NoVal, machine |-> NoVal,
   server |-> NoVal, global |-> NoVal, objectclass |-> NoVal]

\* An error thrown by validation.
Thrown(kind, msg) == [ok |-> FALSE, kind |-> kind, msg |-> msg, raw |-> NoRaw]

Valid(raw) == [ok |-> TRUE, kind |-> NoVal, msg |-> NoVal, raw |-> raw]

\* The requiredFields loop of Probe.validate: amonprobe, then type.
RequiredFields(raw) ==
  IF raw.amonprobe = NoVal THEN Thrown("MissingParameter", "name is required")
  ELSE IF raw.type = NoVal THEN Thrown("MissingParameter", "type is required")
  ELSE Valid(raw)

HasBothTargetsNever(raw) == FALSE

\* raw.machine && raw.server
HasBothTargets(raw) == raw.machine # NoVal /\ raw.server # NoVal

\* "One of 'machine' or 'server' is required": the if/else chain.
ValidateTarget(raw) ==
  IF HasBothTargets(raw)
    THEN Thrown("InvalidArgument", "must specify only one of machine or server")
  ELSE IF raw.machine # NoVal
    THEN IF UUID_RE(raw.machine) THEN Valid(raw)
         ELSE Thrown("InvalidArgument", "invalid probe machine UUID")
  ELSE IF raw.server # NoVal
    THEN IF UUID_RE(raw.server) THEN Valid(raw)
         ELSE Thrown("InvalidArgument", "invalid probe server UUID")
  ELSE Thrown("MissingParameter", "must specify one of machine or server")

\* "Validate the probe type and config", and raw.global is set.
ValidateTypeConfig(raw) ==
  IF ~PluginDefined(raw.type)
    THEN Thrown("InvalidArgument", "probe type is invalid")
  ELSE IF raw.config # NoVal /\ JSONparse(raw.config) = ParseError
    THEN Thrown("InvalidArgument", "probe config is invalid JSON")
  ELSE IF raw.config # NoVal /\ ~ValidateConfigOk(raw.type, JSONparse(raw.config))
    THEN Thrown("InvalidArgument", "probe config is invalid")
  ELSE Valid([raw EXCEPT !.global =
                IF RunInGlobal(raw.type) THEN "TRUE" ELSE raw.global])

ValidateTypeFirst(raw) ==
  IF ~RequiredFields(raw).ok THEN RequiredFields(raw)
  ELSE IF ~ValidateTypeConfig(raw).ok THEN ValidateTypeConfig(raw)
  ELSE IF ~ValidateTarget(raw).ok THEN ValidateTarget(raw)
  ELSE ValidateTypeConfig(raw)

\* Probe.validate(app, raw): the checks in the order the code makes them.
Validate(raw) ==
  IF ~RequiredFields(raw).ok THEN RequiredFields(raw)
  ELSE IF ~ValidateTarget(raw).ok THEN ValidateTarget(raw)
  ELSE ValidateTypeConfig(raw)

\* Probe.validateName(name) returns without throwing.
ValidateNameOk(name) == NameRegex(name)

\* The result of `new Probe(app, data)` that threw.
NoProbe(kind, msg) ==
  [ok |-> FALSE, kind |-> kind, msg |-> msg, dn |-> NoDn, user |-> NoVal,
   monitor |-> NoVal, raw |-> NoRaw]

\* The tail of the constructor: validateName, validate, this.raw.
ProbeFinish(dn, user, monitor, raw) ==
  IF ~ValidateNameOk(raw.amonprobe)
    THEN NoProbe("InvalidArgument", "name is invalid")
    ELSE LET v == Validate(raw) IN
         IF v.ok
           THEN [ok |-> TRUE, kind |-> NoVal, msg |-> NoVal, dn |-> dn,
                 user |-> user, monitor |-> monitor, raw |-> v.raw]
           ELSE NoProbe(v.kind, v.msg)

\* new Probe(app, data): data is the public form or a directory record.
ProbeNew(data) ==
  IF data.objectclass # NoVal
    THEN IF data.objectclass # ProbeObjectclass
           THEN NoProbe("TypeError", "objectclass")
           ELSE ProbeFinish(data.dn, ParseDn(data.dn).user,
                            ParseDn(data.dn).monitor,
                            [amonprobe |-> data.amonprobe, type |-> data.type,
                             config |-> data.config, machine |-> data.machine,
                             server |-> data.server, global |-> data.global,
                             objectclass |-> data.objectclass])
    ELSE IF data.name = NoVal THEN NoProbe("TypeError", "no name")
    ELSE IF data.monitor = NoVal THEN NoProbe("TypeError", "no monitor")
    ELSE IF data.user = NoVal THEN NoProbe("TypeError", "no user")
    ELSE ProbeFinish(ProbeDn(data.user, data.monitor, data.name),
                     data.user, data.monitor,
                     [amonprobe |-> data.name, type |-> data.type,
                      config |-> IF Truthy(data.config)
                                   THEN JSONstringify(data.config) ELSE NoVal,
                      machine |-> data.machine, server |-> data.server,
                      global |-> NoVal, objectclass |-> ProbeObjectclass])

\* The getter `config` of a Probe instance.
ProbeConfig(item) ==
  IF item.raw.config = NoVal THEN NoVal ELSE JSONparse(item.raw.config)

SerializeWithGlobal(item, priv) ==
  [user |-> item.user, monitor |-> item.monitor, name |-> item.raw.amonprobe,
   type |-> item.raw.type,
   config |-> IF Truthy(ProbeConfig(item)) THEN ProbeConfig(item) ELSE NoVal,
   machine |-> item.raw.machine, server |-> item.raw.server,
   global |-> item.raw.global]

\* Probe.prototype.serialize(priv)
Serialize(item, priv) ==
  [user |-> item.user, monitor |-> item.monitor, name |-> item.raw.amonprobe,
   type |-> item.raw.type,
   config |-> IF Truthy(ProbeConfig(item)) THEN ProbeConfig(item) ELSE NoVal,
   machine |-> item.raw.machine, server |-> item.raw.server,
   global |-> IF priv /\ item.raw.global # NoVal THEN item.raw.global ELSE NoVal]

\* A serialization (or a request's merged data) read as constructor input:
\* it has no objectclass, so the constructor takes the public branch.
AsData(ser) ==
  [objectclass |-> NoVal, dn |-> NoDn, amonprobe |-> NoVal, name |-> ser.name,
   monitor |-> ser.monitor, user |-> ser.user, type |-> ser.type,
   config |-> ser.config, machine |-> ser.machine, server |-> ser.server,
   global |-> ser.global]

\* A directory entry as ufdsSearch returns it: the stored raw plus its dn.
AsEntry(dn, raw) ==
  [objectclass |-> raw.objectclass, dn |-> dn, amonprobe |-> raw.amonprobe,
   name |-> NoVal, monitor |-> NoVal, user |-> NoVal, type |-> raw.type,
   config |-> raw.config, machine |-> raw.machine, server |-> raw.server,
   global |-> raw.global]

\* ------------------------------------------------------------------------
\* Probe.prototype.authorizePut
\* ------------------------------------------------------------------------

\* What the authorization lookups find for one PUT: the facts (the account
\* owns the machine, the machine exists, the account is an operator, the
\* server exists) and, per lookup, whether it fails unexpectedly.
\*   failMapi     app.mapi.getMachine(user, machine) errs, not with 404
\*   failMapiAny  app.mapi.getMachine('', machine) errs, no machine returned
\*   failOp       app.isOperator calls back with an error
\*   failSrv      app.serverExists calls back with an error and no value
AuthWorlds ==
  {w \in [owns : BOOLEAN, exists : BOOLEAN, operator : BOOLEAN,
          serverExists : BOOLEAN, failMapi : BOOLEAN, failMapiAny : BOOLEAN,
          failOp : BOOLEAN, failSrv : BOOLEAN] : w.owns => w.exists}

AuthOk(lookups) == [ok |-> TRUE, kind |-> NoVal, msg |-> NoVal, lookups |-> lookups]

AuthErr(kind, msg, lookups) ==
  [ok |-> FALSE, kind |-> kind, msg |-> msg, lookups |-> lookups]

\* isRunInGlobalOrErr calls next() without an error
IsRunInGlobalAlways(item) == TRUE

IsRunInGlobal(item) == RunInGlobal(item.raw.type)

\* isExistingMachineOrErr calls next() without an error: a machine came back
IsExistingMachine(w) == w.exists /\ ~w.failMapiAny

\* userIsOperatorOrErr calls next() without an error
UserIsOperatorAlways(w) == TRUE

UserIsOperator(w) == ~w.failOp /\ w.operator

\* async.series(conditions3, ...): the checks run in order and the first
\* that fails ends the series; the result is the lookups made and not3.
Conditions3(item, w) ==
  IF ~IsRunInGlobal(item)
    THEN [not3 |-> TRUE, lookups |-> <<>>]
  ELSE IF ~IsExistingMachine(w)
    THEN [not3 |-> TRUE, lookups |-> <<"getMachineAny">>]
  ELSE IF ~UserIsOperator(w)
    THEN [not3 |-> TRUE, lookups |-> <<"getMachineAny", "isOperator">>]
  ELSE [not3 |-> FALSE, lookups |-> <<"getMachineAny", "isOperator">>]

\* The kind of error a refused server-targeted PUT of a non-operator gets.
NotOperatorKindForbidden == "NotAuthorized"

NotOperatorKind == "InvalidArgument"

\* Probe.prototype.authorizePut(app, callback): the error (or none) the
\* callback is called with, and the lookups made on the way.
AuthorizePut(item, w) ==
  IF item.raw.machine # NoVal
    THEN IF w.failMapi
           THEN AuthErr("InternalError", "authorizing probe put",
                        <<"getMachine">>)
         ELSE IF w.owns THEN AuthOk(<<"getMachine">>)
         ELSE LET c == Conditions3(item, w) IN
              IF c.not3
                THEN AuthErr("InvalidArgument", "machine does not exist or is not owned",
                             <<"getMachine">> \o c.lookups)
                ELSE AuthOk(<<"getMachine">> \o c.lookups)
  ELSE IF item.raw.server # NoVal
    THEN IF w.failOp
           THEN AuthErr("InternalError", "authorizing probe put",
                        <<"isOperator">>)
         ELSE IF ~w.operator
           THEN AuthErr(NotOperatorKind, "must be operator", <<"isOperator">>)
         \* `if (err)` tests the error of isOperator, which is null here, so
         \* an error of serverExists is not seen: only its value is.
         ELSE IF ~(w.serverExists /\ ~w.failSrv)
           THEN AuthErr("InvalidArgument", "no such server",
                        <<"isOperator", "serverExists">>)
         ELSE AuthOk(<<"isOperator", "serverExists">>)
  ELSE AuthErr("InternalError", "authorizing probe put", <<>>)

\* The three authorization rules of a Probe PUT, on the facts.
Rule1(item, w) == item.raw.machine # NoVal /\ w.owns
Rule2(item, w) == item.raw.server # NoVal /\ w.operator /\ w.serverExists
Rule3(item, w) ==
  /\ item.raw.machine # NoVal
  /\ w.exists /\ ~w.owns
  /\ RunInGlobal(item.raw.type)
  /\ w.operator

\* No lookup failed unexpectedly.
LookupsAnswer(w) == ~w.failMapi /\ ~w.failMapiAny /\ ~w.failOp /\ ~w.failSrv

\* ------------------------------------------------------------------------
\* State
\* ------------------------------------------------------------------------

VARIABLES
  ufds,          \* the directory: DN -> stored raw record (NoRaw: no entry)
  getCache,      \* the 'ProbeGet' cache: DN -> entry
  listCache,     \* the 'ProbeList' cache: parent DN -> entry
  req,           \* the request in progress at the Master
  lastWrite,     \* per DN, the last write the Master completed
  pin,           \* the data given to `new Probe(app, data)`
  pres,          \* what the constructor produced for pin
  pauth,         \* what authorizePut produced for pres
  accountCache,  \* app.accountCache: login -> entry
  acct,          \* the accountFromLogin call in progress
  persons,       \* sdcperson entries in the directory per login
  prt,           \* the Probe built again from pres' serialize(true)
  mon,           \* the contacts of the monitor an event names
  ev,            \* the event dispatch in progress at the Master
  evlog,         \* per event uuid, what its first dispatch answered
  rl,            \* the relay: its data files and the request in progress
  pl,            \* the Master's manifests and the relay's poll loops
  mons,          \* the directory's monitor entries: DN -> stored raw record
  mreq,          \* the monitor request in progress at the Master
  rd,            \* a GET in progress at the Master beside the request req
  cl,            \* the App's HTTP server, its connections, its directory client
  ch,            \* a request in the handler chain of its route
  bs,            \* the bootstrap script: its steps and its wait for the zone
  az             \* an authorizePut in progress, from lookup to lookup

vars ==
  <<ufds, getCache, listCache, req, lastWrite, pin, pres, pauth,
    accountCache, acct, persons, prt, mon, ev, evlog, rl, pl,
    mons, mreq, rd, cl, ch, bs, az>>

storeVars == <<ufds, getCache, listCache, req, lastWrite>>
probeVars == <<pin, pres, pauth, prt>>
accountVars == <<accountCache, acct, persons>>
eventVars == <<mon, ev, evlog>>
relayVars == <<rl>>
syncVars == <<pl>>
treeVars == <<mons, mreq>>
raceVars == <<rd>>
closeVars == <<cl>>
chainVars == <<ch>>
bootVars == <<bs>>
authzVars == <<az>>

\* ------------------------------------------------------------------------
\* The Probe constructor and authorizePut on bounded inputs
\* ------------------------------------------------------------------------

DnP == ProbeDn(UuidBob, MonitorW, NameP)
DnQ == ProbeDn(UuidBob, MonitorW, NameQ)

\* Public-form inputs: what requestPut can hand to the constructor.
PublicInputs ==
  [objectclass : {NoVal}, dn : {NoDn}, amonprobe : {NoVal},
   name : {NoVal, NameP, BadName}, monitor : {NoVal, MonitorW},
   user : {NoVal, UuidBob},
   type : {NoVal, "logscan", "machine-up", "bogus"},
   config : {NoVal, ObjGood, ObjBad, NumZero},
   machine : {NoVal, MachineA, NotUuid},
   server : {NoVal, ServerA, NotUuid},
   global : {NoVal, "TRUE"}]

\* Directory records: what a search of the directory can return.
NativeInputs ==
  [objectclass : {ProbeObjectclass, "amonmonitor"}, dn : {DnP, DnQ},
   amonprobe : {NoVal, NameP, BadName},
   name : {NoVal}, monitor : {NoVal}, user : {NoVal},
   type : {NoVal, "logscan", "machine-up", "bogus"},
   config : {NoVal, JsonGood, JsonGoodSpaced, JsonBad, JsonZero, NotJson},
   machine : {NoVal, MachineA, NotUuid},
   server : {NoVal, ServerA, NotUuid},
   global : {NoVal, "true"}]

ProbeInputs == PublicInputs \cup NativeInputs

NoAuth ==
  [done |-> FALSE,
   w |-> [owns |-> FALSE, exists |-> FALSE, operator |-> FALSE,
          serverExists |-> FALSE, failMapi |-> FALSE, failMapiAny |-> FALSE,
          failOp |-> FALSE, failSrv |-> FALSE],
   res |-> AuthErr(NoVal, NoVal, <<>>)]

NoRes == [done |-> FALSE, item |-> NoProbe(NoVal, NoVal)]

ProbeIdle == pin \in ProbeInputs /\ pres = NoRes /\ pauth = NoAuth /\ prt = NoRes

\* new Probe(app, pin)
Construct ==
  /\ ~pres.done
  /\ pres' = [done |-> TRUE, item |-> ProbeNew(pin)]
  /\ UNCHANGED <<pin, pauth, prt, storeVars, accountVars, eventVars, relayVars, syncVars, treeVars, raceVars, closeVars, chainVars, bootVars, authzVars>>

\* item.authorizePut(app, callback), run to its callback
Authorize(w) ==
  /\ pres.done /\ pres.item.ok
  /\ ~pauth.done
  /\ pauth' = [done |-> TRUE, w |-> w, res |-> AuthorizePut(pres.item, w)]
  /\ UNCHANGED <<pin, pres, prt, storeVars, accountVars, eventVars, relayVars, syncVars, treeVars, raceVars, closeVars, chainVars, bootVars, authzVars>>

\* new Probe(app, item.serialize(true)): the internal serialization of a
\* constructed Probe is given to the constructor again; it carries no
\* objectclass, so the constructor takes the public branch.
Reingest ==
  /\ pres.done /\ pres.item.ok
  /\ ~prt.done
  /\ prt' = [done |-> TRUE, item |-> ProbeNew(AsData(Serialize(pres.item, TRUE)))]
  /\ UNCHANGED <<pin, pres, pauth, storeVars, accountVars, eventVars, relayVars, syncVars, treeVars, raceVars, closeVars, chainVars, bootVars, authzVars>>

\* ------------------------------------------------------------------------
\* Probe.prototype.authorizePut, from lookup to lookup
\* ------------------------------------------------------------------------

\* The probes whose PUT is authorized: with a machine or a server, of a type
\* that runs in the global zone or not.
AuthzInputs ==
  [objectclass : {NoVal}, dn : {NoDn}, amonprobe : {NoVal},
   name : {NameP}, monitor : {MonitorW}, user : {UuidBob},
   type : {"logscan", "machine-up"}, config : {ObjGood},
   machine : {NoVal, MachineA}, server : {NoVal, ServerA},
   global : {NoVal}]

AuthzItems == {i \in {ProbeNew(d) : d \in AuthzInputs} : i.ok}

IdleAuthz ==
  [pc |-> "idle", item |-> NoProbe(NoVal, NoVal), w |-> NoAuth.w, calls |-> 0,
   res |-> AuthErr(NoVal, NoVal, <<>>)]

\* callback(err) of authorizePut
AuthzCallback(a, ok, kind, msg) ==
  [a EXCEPT !.pc = "done", !.calls = @ + 1,
            !.res = [ok |-> ok, kind |-> kind, msg |-> msg,
                     lookups |-> a.res.lookups]]

\* A lookup is called: the authorization waits for its callback.
AuthzLookup(a, lookup, pc) ==
  [a EXCEPT !.pc = pc, !.res.lookups = Append(@, lookup)]

\* The callback of async.series(conditions3, ...)
AuthzNot3(a, not3) ==
  IF not3
    THEN AuthzCallback(a, FALSE, "InvalidArgument",
                       "machine does not exist or is not owned")
    ELSE AuthzCallback(a, TRUE, NoVal, NoVal)

\* item.authorizePut(app, callback) up to its first lookup.
AuthzStart(item, w) ==
  /\ az.pc = "idle"
  /\ LET a == [IdleAuthz EXCEPT !.item = item, !.w = w] IN
     az' = IF item.raw.machine # NoVal
             THEN AuthzLookup(a, "getMachine", "getMachine")
           ELSE IF item.raw.server # NoVal
             THEN AuthzLookup(a, "isOperator", "isOperator")
           ELSE AuthzCallback(a, FALSE, "InternalError", "authorizing probe put")
  /\ UNCHANGED <<storeVars, probeVars, accountVars, eventVars, relayVars, syncVars, treeVars, raceVars, closeVars, chainVars, bootVars>>

\* The callback of app.mapi.getMachine(user, machine): on 404 the series of
\* conditions3 starts, and isRunInGlobalOrErr, which makes no lookup, either
\* ends it or lets isExistingMachineOrErr call app.mapi.getMachine('', ...).
AuthzGetMachineCb ==
  /\ az.pc = "getMachine"
  /\ az' = IF az.w.failMapi
             THEN AuthzCallback(az, FALSE, "InternalError", "authorizing probe put")
           ELSE IF az.w.owns THEN AuthzCallback(az, TRUE, NoVal, NoVal)
           ELSE IF ~IsRunInGlobal(az.item) THEN AuthzNot3(az, TRUE)
           ELSE AuthzLookup(az, "getMachineAny", "getMachineAny")
  /\ UNCHANGED <<storeVars, probeVars, accountVars, eventVars, relayVars, syncVars, treeVars, raceVars, closeVars, chainVars, bootVars>>

\* The callback of isExistingMachineOrErr's lookup: next() lets
\* userIsOperatorOrErr call app.isOperator, next(err) ends the series.
AuthzMachineAnyCb ==
  /\ az.pc = "getMachineAny"
  /\ az' = IF ~IsExistingMachine(az.w) THEN AuthzNot3(az, TRUE)
           ELSE AuthzLookup(az, "isOperator", "isOperator3")
  /\ UNCHANGED <<storeVars, probeVars, accountVars, eventVars, relayVars, syncVars, treeVars, raceVars, closeVars, chainVars, bootVars>>

\* The callback of userIsOperatorOrErr's lookup: the last of the series.
AuthzOperator3Cb ==
  /\ az.pc = "isOperator3"
  /\ az' = AuthzNot3(az, ~UserIsOperator(az.w))
  /\ UNCHANGED <<storeVars, probeVars, accountVars, eventVars, relayVars, syncVars, treeVars, raceVars, closeVars, chainVars, bootVars>>

\* The callback of app.isOperator for a probe on a server.
AuthzIsOperatorCb ==
  /\ az.pc = "isOperator"
  /\ az' = IF az.w.failOp
             THEN AuthzCallback(az, FALSE, "InternalError", "authorizing probe put")
           ELSE IF ~az.w.operator
             THEN AuthzCallback(az, FALSE, NotOperatorKind, "must be operator")
           ELSE AuthzLookup(az, "serverExists", "serverExists")
  /\ UNCHANGED <<storeVars, probeVars, accountVars, eventVars, relayVars, syncVars, treeVars, raceVars, closeVars, chainVars, bootVars>>

\* The callback of app.serverExists: its `if (err)` tests the error of
\* app.isOperator, which is null here; only the value is looked at.
AuthzServerExistsCb ==
  /\ az.pc = "serverExists"
  /\ az' = IF ~(az.w.serverExists /\ ~az.w.failSrv)
             THEN AuthzCallback(az, FALSE, "InvalidArgument", "no such server")
             ELSE AuthzCallback(az, TRUE, NoVal, NoVal)
  /\ UNCHANGED <<storeVars, probeVars, accountVars, eventVars, relayVars, syncVars, treeVars, raceVars, closeVars, chainVars, bootVars>>

\* The caller has its answer.
AuthzFinish ==
  /\ az.pc = "done"
  /\ az' = IdleAuthz
  /\ UNCHANGED <<storeVars, probeVars, accountVars, eventVars, relayVars, syncVars, treeVars, raceVars, closeVars, chainVars, bootVars>>

\* ------------------------------------------------------------------------
\* The directory and the caches, as the model helpers use them
\* ------------------------------------------------------------------------

Dns == {DnP, DnQ}

\* The order in which a search of the directory returns entries.
DnOrder == <<DnP, DnQ>>

ParentW == ParentDn(UuidBob, MonitorW)
ParentDns == {ParentW}

\* The parent DN of an entity DN.
ParentOf(dn) == ParentDn(dn[1], dn[2])

\* How a call to the directory ends: it answers from its content, it is
\* unreachable (httpCode 503), or it fails in another way.
DirOutcomes == {"answer", "Unavailable", "Other"}

NoSer ==
  [user |-> NoVal, monitor |-> NoVal, name |-> NoVal, type |-> NoVal,
   config |-> NoVal, machine |-> NoVal, server |-> NoVal, global |-> NoVal]

NoItem == NoProbe(NoVal, NoVal)

\* A Get cache slot: {err, data}, or nothing cached.
NoGetEntry == [has |-> FALSE, err |-> NoVal, data |-> NoSer]
\* A List cache slot: {err, data: [...]}, or nothing cached.
NoListEntry == [has |-> FALSE, err |-> NoVal, data |-> <<>>]

\* app.cacheSet(scope, key, value)
CacheSet(cache, key, err, data) ==
  [cache EXCEPT ![key] = [has |-> TRUE, err |-> err, data |-> data]]

\* app.cacheDel(scope, key) on the Get cache and on the List cache
CacheDelGet(cache, key) == [cache EXCEPT ![key] = NoGetEntry]
CacheDelList(cache, key) == [cache EXCEPT ![key] = NoListEntry]

\* app.cacheInvalidatePut(modelName, item): the Get entry at the item's DN
\* and the List entry at its parent DN are dropped.
CacheInvalidatePut(gc, lc, item) ==
  [get |-> CacheDelGet(gc, item.dn), list |-> CacheDelList(lc, ParentOf(item.dn))]

\* app.cacheInvalidateDelete(modelName, item): as for a put.
CacheInvalidateDelete(gc, lc, item) ==
  [get |-> CacheDelGet(gc, item.dn), list |-> CacheDelList(lc, ParentOf(item.dn))]

\* The outcome of a search that ends without an error and without an entry.
NoEntries == "NoEntries"

\* app.ufdsSearch(dn, {scope: 'base'}, cb): the error or the entries. Of a
\* DN that holds no entry the directory reports a no-such-object error, or
\* (outcome NoEntries) it ends the search with zero entries.
UfdsSearchBase(u, dn, outcome) ==
  IF outcome \notin {"answer", NoEntries} THEN [err |-> outcome, entries |-> <<>>]
  ELSE IF u[dn] = NoRaw
    THEN IF outcome = NoEntries THEN [err |-> NoVal, entries |-> <<>>]
         ELSE [err |-> "NoSuchObject", entries |-> <<>>]
  ELSE [err |-> NoVal, entries |-> <<AsEntry(dn, u[dn])>>]

\* The present entries under parent, in directory order.
RECURSIVE EntriesUnder(_, _, _)
EntriesUnder(u, parent, i) ==
  IF i > Len(DnOrder) THEN <<>>
  ELSE (IF ParentOf(DnOrder[i]) = parent /\ u[DnOrder[i]] # NoRaw
          THEN <<AsEntry(DnOrder[i], u[DnOrder[i]])>> ELSE <<>>)
       \o EntriesUnder(u, parent, i + 1)

\* app.ufdsSearch(parentDn, {filter: objectclass, scope: 'sub'}, cb)
UfdsSearchSub(u, parent, outcome) ==
  IF outcome # "answer" THEN [err |-> outcome, entries |-> <<>>]
  ELSE [err |-> NoVal, entries |-> EntriesUnder(u, parent, 1)]

\* app.ufdsAdd(dn, raw, cb): an add at a DN that holds an entry is refused.
UfdsAdd(u, dn, raw, outcome) ==
  IF outcome # "answer" THEN [err |-> outcome, ufds |-> u]
  ELSE IF u[dn] # NoRaw THEN [err |-> "AlreadyExists", ufds |-> u]
  ELSE [err |-> NoVal, ufds |-> [u EXCEPT ![dn] = raw]]

\* app.ufdsDelete(dn, cb)
UfdsDelete(u, dn, outcome) ==
  IF outcome # "answer" THEN [err |-> outcome, ufds |-> u]
  ELSE IF u[dn] = NoRaw THEN [err |-> "NoSuchObject", ufds |-> u]
  ELSE [err |-> NoVal, ufds |-> [u EXCEPT ![dn] = NoRaw]]

\* ------------------------------------------------------------------------
\* ufdsmodel.js: modelGet, modelList
\* ------------------------------------------------------------------------

GetResult(err, item, cache) == [err |-> err, item |-> item, cache |-> cache]

\* modelGet that looks in the cache whatever skipCache says.
ModelGetCachedNoSkip(gc, dn, skipCache) ==
  IF ~gc[dn].has
    THEN [hit |-> FALSE, err |-> NoVal, item |-> NoItem, cache |-> gc]
  ELSE IF gc[dn].err # NoVal
    THEN [hit |-> TRUE, err |-> gc[dn].err, item |-> NoItem, cache |-> gc]
  ELSE IF ProbeNew(AsData(gc[dn].data)).ok
    THEN [hit |-> TRUE, err |-> NoVal,
          item |-> ProbeNew(AsData(gc[dn].data)), cache |-> gc]
  ELSE [hit |-> FALSE, err |-> NoVal, item |-> NoItem,
        cache |-> CacheDelGet(gc, dn)]

\* modelGet up to the directory search: the cache lookup.  hit = the
\* callback was called from the cache.
ModelGetCached(gc, dn, skipCache) ==
  IF skipCache \/ ~gc[dn].has
    THEN [hit |-> FALSE, err |-> NoVal, item |-> NoItem, cache |-> gc]
  ELSE IF gc[dn].err # NoVal
    THEN [hit |-> TRUE, err |-> gc[dn].err, item |-> NoItem, cache |-> gc]
  ELSE IF ProbeNew(AsData(gc[dn].data)).ok
    THEN [hit |-> TRUE, err |-> NoVal,
          item |-> ProbeNew(AsData(gc[dn].data)), cache |-> gc]
  ELSE [hit |-> FALSE, err |-> NoVal, item |-> NoItem,
        cache |-> CacheDelGet(gc, dn)]

\* cacheAndCallback storing 'not found' whatever the read gave.
GetCacheAndCallbackNotFound(gc, dn, skipCache, err, item) ==
  GetResult(err, item,
            IF skipCache THEN gc ELSE CacheSet(gc, dn, "ResourceNotFound", NoSer))

\* cacheAndCallback of modelGet
GetCacheAndCallback(gc, dn, skipCache, err, item) ==
  GetResult(err, item,
            IF skipCache THEN gc
            ELSE CacheSet(gc, dn, err,
                          IF item.ok THEN Serialize(item, FALSE) ELSE NoSer))

\* err.httpCode === 503: the error is handed on and not cached
IsUnavailableNever(err) == FALSE

IsUnavailable(err) == err = "Unavailable"

\* modelGet from the callback of the directory search on.
ModelGetSearched(gc, u, dn, skipCache, outcome) ==
  LET s == UfdsSearchBase(u, dn, outcome) IN
  IF s.err # NoVal
    THEN IF IsUnavailable(s.err) THEN GetResult(s.err, NoItem, gc)
         ELSE IF s.err = "NoSuchObject"
           THEN GetCacheAndCallback(gc, dn, skipCache, "ResourceNotFound", NoItem)
         ELSE GetCacheAndCallback(gc, dn, skipCache, s.err, NoItem)
  ELSE IF Len(s.entries) = 1
    THEN IF ProbeNew(s.entries[1]).ok
           THEN GetCacheAndCallback(gc, dn, skipCache, NoVal, ProbeNew(s.entries[1]))
           ELSE GetResult("InternalError", NoItem, gc)
  ELSE GetResult("InternalError", NoItem, gc)

\* items.map(function (i) { return i.serialize(); })
SerializeAll(items) == [i \in 1..Len(items) |-> Serialize(items[i], FALSE)]

\* cached.data.map(function (d) { return new Model(app, d); })
ConstructAll(data) == [i \in 1..Len(data) |-> ProbeNew(AsData(data[i]))]

AllOk(items) == \A i \in 1..Len(items) : items[i].ok

ListResult(err, items, cache) == [err |-> err, items |-> items, cache |-> cache]

\* modelList handing the construction error of cached data to its caller.
ModelListCachedRethrow(lc, parent) ==
  IF ~lc[parent].has
    THEN [hit |-> FALSE, err |-> NoVal, items |-> <<>>, cache |-> lc]
  ELSE IF lc[parent].err # NoVal
    THEN [hit |-> TRUE, err |-> lc[parent].err, items |-> <<>>, cache |-> lc]
  ELSE IF AllOk(ConstructAll(lc[parent].data))
    THEN [hit |-> TRUE, err |-> NoVal,
          items |-> ConstructAll(lc[parent].data), cache |-> lc]
  ELSE [hit |-> TRUE, err |-> "InvalidArgument", items |-> <<>>, cache |-> lc]

\* modelList up to the directory search: the cache lookup.
ModelListCached(lc, parent) ==
  IF ~lc[parent].has
    THEN [hit |-> FALSE, err |-> NoVal, items |-> <<>>, cache |-> lc]
  ELSE IF lc[parent].err # NoVal
    THEN [hit |-> TRUE, err |-> lc[parent].err, items |-> <<>>, cache |-> lc]
  ELSE IF AllOk(ConstructAll(lc[parent].data))
    THEN [hit |-> TRUE, err |-> NoVal,
          items |-> ConstructAll(lc[parent].data), cache |-> lc]
  ELSE [hit |-> FALSE, err |-> NoVal, items |-> <<>>,
        cache |-> CacheDelList(lc, parent)]

\* The instances built from rawItems; a record that does not construct is
\* skipped.
RECURSIVE Instances(_, _)
Instances(entries, i) ==
  IF i > Len(entries) THEN <<>>
  ELSE (IF ProbeNew(entries[i]).ok THEN <<ProbeNew(entries[i])>> ELSE <<>>)
       \o Instances(entries, i + 1)

\* modelList failing when a record does not construct.
ModelListSearchedStrict(lc, u, parent, outcome) ==
  LET s == UfdsSearchSub(u, parent, outcome) IN
  IF s.err # NoVal
    THEN IF IsUnavailable(s.err) THEN ListResult(s.err, <<>>, lc)
         ELSE ListResult(s.err, <<>>, CacheSet(lc, parent, s.err, <<>>))
  ELSE IF \E i \in 1..Len(s.entries) : ~ProbeNew(s.entries[i]).ok
    THEN ListResult("InternalError", <<>>, lc)
  ELSE LET instances == Instances(s.entries, 1) IN
       ListResult(NoVal, instances,
                  CacheSet(lc, parent, NoVal, SerializeAll(instances)))

\* modelList from the callback of the directory search on.
ModelListSearched(lc, u, parent, outcome) ==
  LET s == UfdsSearchSub(u, parent, outcome) IN
  IF s.err # NoVal
    THEN IF IsUnavailable(s.err) THEN ListResult(s.err, <<>>, lc)
         ELSE ListResult(s.err, <<>>, CacheSet(lc, parent, s.err, <<>>))
  ELSE LET instances == Instances(s.entries, 1) IN
       ListResult(NoVal, instances,
                  CacheSet(lc, parent, NoVal, SerializeAll(instances)))

\* ------------------------------------------------------------------------
\* ufdsmodel.js: the request handlers, one step per callback
\* ------------------------------------------------------------------------

IdleReq ==
  [op |-> "idle", pc |-> "idle", dn |-> NoDn, item |-> NoItem, kind |-> NoVal,
   body |-> NoSer, list |-> <<>>, trace |-> <<>>]

\* next(err): the request ends with an error of this kind.
Failed(r, kind) == [r EXCEPT !.pc = "done", !.kind = kind]

\* res.send(item.serialize()); next()
Sent(r, item) ==
  [r EXCEPT !.pc = "done", !.kind = NoVal, !.item = item,
            !.body = Serialize(item, FALSE)]

\* Is the serialization among the items of a list?
InList(ser, list) == \E i \in 1..Len(list) : list[i] = ser

\* lastWrite[dn]: the kind of the write, the entity's public serialization
\* (of a put), and whether both caches held the state before the write when
\* it reached the directory: a Get entry at the DN (of a delete: with the
\* entity; of a put: a ResourceNotFound) and a List entry at the parent (of
\* a delete: with the entity in it; of a put: without it).
NoWrite == [kind |-> "none", ser |-> NoSer, cached |-> FALSE]

\* The route parameters of /pub/:user/monitors/:monitor/probes/:name
RouteParams(name) ==
  [user |-> "bob", monitor |-> MonitorW, name |-> name, type |-> NoVal,
   config |-> NoVal, machine |-> NoVal, server |-> NoVal, global |-> NoVal]

\* Request bodies of a PUT.
BodyA == [NoSer EXCEPT !.type = "logscan", !.config = ObjGood, !.machine = MachineA]
BodyB == [NoSer EXCEPT !.type = "machine-up", !.machine = MachineA]
BodyBoth == [NoSer EXCEPT !.type = "logscan", !.machine = MachineA, !.server = ServerA]
\* A body with keys that are also route parameters: name and user.
BodyRenamed == [BodyA EXCEPT !.name = NameQ, !.user = UuidAlice]
PutBodies == {BodyA, BodyB, BodyBoth, BodyRenamed}

\* requestPut: data gets the route parameters, then the keys of the body,
\* then data.user = req._user.uuid.
RequestPutData(params, body, userUuid) ==
  [f \in DOMAIN params |->
     IF f = "user" THEN userUuid
     ELSE IF body[f] # NoVal THEN body[f] ELSE params[f]]

\* requestGet / modelGet: the cache lookup, then the search is sent.
StartGet(dn) ==
  /\ req.pc = "idle"
  /\ LET c == ModelGetCached(getCache, dn, FALSE)
         r == [IdleReq EXCEPT !.op = "get", !.dn = dn, !.trace = <<"modelGet">>] IN
     /\ getCache' = c.cache
     /\ req' = IF ~c.hit THEN [r EXCEPT !.pc = "search"]
               ELSE IF c.err # NoVal THEN Failed(r, c.err)
               ELSE Sent(r, c.item)
  /\ UNCHANGED <<ufds, listCache, lastWrite, probeVars, accountVars, eventVars, relayVars, syncVars, treeVars, raceVars, closeVars, chainVars, bootVars, authzVars>>

\* modelGet: the callback of ufdsSearch, for a GET.
GetSearchCb(outcome) ==
  /\ req.op = "get" /\ req.pc = "search"
  /\ LET g == ModelGetSearched(getCache, ufds, req.dn, FALSE, outcome) IN
     /\ getCache' = g.cache
     /\ req' = IF g.err # NoVal THEN Failed(req, g.err) ELSE Sent(req, g.item)
  /\ UNCHANGED <<ufds, listCache, lastWrite, probeVars, accountVars, eventVars, relayVars, syncVars, treeVars, raceVars, closeVars, chainVars, bootVars, authzVars>>

\* requestList / modelList: the cache lookup, then the search is sent.
StartList(parent) ==
  /\ req.pc = "idle"
  /\ LET c == ModelListCached(listCache, parent)
         r == [IdleReq EXCEPT !.op = "list", !.dn = parent,
                              !.trace = <<"modelList">>] IN
     /\ listCache' = c.cache
     /\ req' = IF ~c.hit THEN [r EXCEPT !.pc = "search"]
               ELSE IF c.err # NoVal THEN Failed(r, c.err)
               ELSE [r EXCEPT !.pc = "done", !.list = SerializeAll(c.items)]
  /\ UNCHANGED <<ufds, getCache, lastWrite, probeVars, accountVars, eventVars, relayVars, syncVars, treeVars, raceVars, closeVars, chainVars, bootVars, authzVars>>

\* modelList: the callback of ufdsSearch.
ListSearchCb(outcome) ==
  /\ req.op = "list" /\ req.pc = "search"
  /\ LET l == ModelListSearched(listCache, ufds, req.dn, outcome) IN
     /\ listCache' = l.cache
     /\ req' = IF l.err # NoVal THEN Failed(req, l.err)
               ELSE [req EXCEPT !.pc = "done", !.list = SerializeAll(l.items)]
  /\ UNCHANGED <<ufds, getCache, lastWrite, probeVars, accountVars, eventVars, relayVars, syncVars, treeVars, raceVars, closeVars, chainVars, bootVars, authzVars>>

\* requestPut / modelPut: the model is constructed; authorizePut is called
\* only with a constructed item.
StartPut(name, body) ==
  /\ req.pc = "idle"
  /\ LET item == ProbeNew(AsData(RequestPutData(RouteParams(name), body, UuidBob)))
         r == [IdleReq EXCEPT !.op = "put",
                              !.dn = ProbeDn(UuidBob, MonitorW, name)] IN
     req' = IF ~item.ok THEN Failed([r EXCEPT !.trace = <<"new Model threw">>], item.kind)
            ELSE [r EXCEPT !.pc = "authorize", !.item = item,
                           !.trace = <<"new Model", "authorizePut">>]
  /\ UNCHANGED <<ufds, getCache, listCache, lastWrite, probeVars, accountVars, eventVars, relayVars, syncVars, treeVars, raceVars, closeVars, chainVars, bootVars, authzVars>>

\* modelPut: `if (err) return callback(err)` in the callback of authorizePut
PutAuthorizedAlways(a) == TRUE

PutAuthorized(a) == a.ok

\* modelPut: the callback of authorizePut; ufdsAdd is called if it gave no
\* error.
PutAuthCb(w) ==
  /\ req.op = "put" /\ req.pc = "authorize"
  /\ LET a == AuthorizePut(req.item, w) IN
     req' = IF ~PutAuthorized(a)
              THEN Failed([req EXCEPT !.trace = @ \o <<"refused">>], a.kind)
              ELSE [req EXCEPT !.pc = "add",
                      !.trace = @ \o (IF a.ok THEN <<"authorized">> ELSE <<"refused">>)
                                  \o <<"ufdsAdd">>]
  /\ UNCHANGED <<ufds, getCache, listCache, lastWrite, probeVars, accountVars, eventVars, relayVars, syncVars, treeVars, raceVars, closeVars, chainVars, bootVars, authzVars>>

ModelPutCachesKept(gc, lc, item) == [get |-> gc, list |-> lc]

\* modelPut: app.cacheInvalidatePut(Model.name, item) after the add
ModelPutCaches(gc, lc, item) == CacheInvalidatePut(gc, lc, item)

\* modelPut: the callback of ufdsAdd.
PutAddCb(outcome) ==
  /\ req.op = "put" /\ req.pc = "add"
  /\ LET a == UfdsAdd(ufds, req.item.dn, req.item.raw, outcome)
         c == ModelPutCaches(getCache, listCache, req.item) IN
     IF a.err # NoVal
       THEN /\ req' = Failed(req, a.err)
            /\ UNCHANGED <<ufds, getCache, listCache, lastWrite>>
       ELSE /\ ufds' = a.ufds
            /\ getCache' = c.get
            /\ listCache' = c.list
            /\ lastWrite' = [lastWrite EXCEPT ![req.item.dn] =
                               [kind |-> "put", ser |-> Serialize(req.item, FALSE),
                                cached |->
                                  /\ getCache[req.item.dn].has
                                  /\ getCache[req.item.dn].err = "ResourceNotFound"
                                  /\ LET l == listCache[ParentOf(req.item.dn)] IN
                                          l.has /\ l.err = NoVal
                                          /\ ~InList(Serialize(req.item, FALSE), l.data)]]
            /\ req' = Sent(req, req.item)
  /\ UNCHANGED <<probeVars, accountVars, eventVars, relayVars, syncVars, treeVars, raceVars, closeVars, chainVars, bootVars, authzVars>>

\* requestDelete / modelDelete: the entity is fetched past the cache.
StartDelete(dn) ==
  /\ req.pc = "idle"
  /\ LET c == ModelGetCached(getCache, dn, TRUE)
         r == [IdleReq EXCEPT !.op = "delete", !.dn = dn,
                              !.trace = <<"modelGet">>] IN
     /\ getCache' = c.cache
     /\ req' = IF ~c.hit THEN [r EXCEPT !.pc = "search"]
               ELSE IF c.err # NoVal THEN Failed(r, c.err)
               ELSE [r EXCEPT !.pc = "delete", !.item = c.item,
                              !.trace = @ \o <<"ufdsDelete">>]
  /\ UNCHANGED <<ufds, listCache, lastWrite, probeVars, accountVars, eventVars, relayVars, syncVars, treeVars, raceVars, closeVars, chainVars, bootVars, authzVars>>

\* modelDelete: the callback of its modelGet; ufdsDelete is called if it
\* gave an item.
DeleteSearchCb(outcome) ==
  /\ req.op = "delete" /\ req.pc = "search"
  /\ LET g == ModelGetSearched(getCache, ufds, req.dn, TRUE, outcome) IN
     /\ getCache' = g.cache
     /\ req' = IF g.err # NoVal THEN Failed(req, g.err)
               ELSE [req EXCEPT !.pc = "delete", !.item = g.item,
                                !.trace = @ \o <<"ufdsDelete">>]
  /\ UNCHANGED <<ufds, listCache, lastWrite, probeVars, accountVars, eventVars, relayVars, syncVars, treeVars, raceVars, closeVars, chainVars, bootVars, authzVars>>

ModelDeleteCachesKept(gc, lc, item) == [get |-> gc, list |-> lc]

\* modelDelete: app.cacheInvalidateDelete(Model.name, item) after the delete
ModelDeleteCaches(gc, lc, item) == CacheInvalidateDelete(gc, lc, item)

\* modelDelete: the callback of ufdsDelete; res.send(204).
DeleteCb(outcome) ==
  /\ req.op = "delete" /\ req.pc = "delete"
  /\ LET d == UfdsDelete(ufds, req.dn, outcome)
         c == ModelDeleteCaches(getCache, listCache, req.item) IN
     IF d.err # NoVal
       THEN /\ req' = Failed(req, d.err)
            /\ UNCHANGED <<ufds, getCache, listCache, lastWrite>>
       ELSE /\ ufds' = d.ufds
            /\ getCache' = c.get
            /\ listCache' = c.list
            /\ lastWrite' = [lastWrite EXCEPT ![req.dn] =
                               [kind |-> "delete", ser |-> NoSer,
                                cached |->
                                  /\ getCache[req.dn].has
                                  /\ getCache[req.dn].err = NoVal
                                  /\ LET l == listCache[ParentOf(req.dn)] IN
                                          l.has /\ l.err = NoVal
                                          /\ InList(Serialize(req.item, FALSE), l.data)]]
            /\ req' = [req EXCEPT !.pc = "done", !.kind = NoVal]
  /\ UNCHANGED <<probeVars, accountVars, eventVars, relayVars, syncVars, treeVars, raceVars, closeVars, chainVars, bootVars, authzVars>>

\* The response has been sent; the Master takes the next request.
Finish ==
  /\ req.pc = "done"
  /\ req' = IdleReq
  /\ UNCHANGED <<ufds, getCache, listCache, lastWrite, probeVars, accountVars, eventVars, relayVars, syncVars, treeVars, raceVars, closeVars, chainVars, bootVars, authzVars>>

\* A second request at the Master, a GET, in progress beside req: each
\* directory call is a suspension point, and the directory's answer to the
\* search is on its way while other callbacks run.
IdleRd == [pc |-> "idle", dn |-> NoDn, outcome |-> NoVal, entry |-> NoRaw,
           kind |-> NoVal, body |-> NoSer]

\* requestGet / modelGet: the cache lookup, then the search is sent.
RdStartGet(dn) ==
  /\ rd.pc = "idle"
  /\ LET c == ModelGetCached(getCache, dn, FALSE) IN
     /\ getCache' = c.cache
     /\ rd' = IF ~c.hit THEN [IdleRd EXCEPT !.pc = "search", !.dn = dn]
              ELSE IF c.err # NoVal
                THEN [IdleRd EXCEPT !.pc = "done", !.dn = dn, !.kind = c.err]
              ELSE [IdleRd EXCEPT !.pc = "done", !.dn = dn,
                                  !.body = Serialize(c.item, FALSE)]
  /\ UNCHANGED <<ufds, listCache, req, lastWrite, probeVars, accountVars, eventVars, relayVars, syncVars, treeVars, closeVars, chainVars, bootVars, authzVars>>

\* The directory answers the search from its content of that moment.
RdSearchAnswered(outcome) ==
  /\ rd.pc = "search"
  /\ rd' = [rd EXCEPT !.pc = "answered", !.outcome = outcome,
                      !.entry = ufds[rd.dn]]
  /\ UNCHANGED <<storeVars, probeVars, accountVars, eventVars, relayVars, syncVars, treeVars, closeVars, chainVars, bootVars, authzVars>>

\* modelGet: the callback of ufdsSearch runs with that answer.
RdSearchCb ==
  /\ rd.pc = "answered"
  /\ LET g == ModelGetSearched(getCache, [ufds EXCEPT ![rd.dn] = rd.entry],
                               rd.dn, FALSE, rd.outcome) IN
     /\ getCache' = g.cache
     /\ rd' = IF g.err # NoVal THEN [rd EXCEPT !.pc = "done", !.kind = g.err]
              ELSE [rd EXCEPT !.pc = "done", !.body = Serialize(g.item, FALSE)]
  /\ UNCHANGED <<ufds, listCache, req, lastWrite, probeVars, accountVars, eventVars, relayVars, syncVars, treeVars, closeVars, chainVars, bootVars, authzVars>>

\* res.send; next()
RdFinish ==
  /\ rd.pc = "done"
  /\ rd' = IdleRd
  /\ UNCHANGED <<storeVars, probeVars, accountVars, eventVars, relayVars, syncVars, treeVars, closeVars, chainVars, bootVars, authzVars>>

\* A Get cache entry expires (its TTL ran out) or is evicted (LRU).
ExpireGet(dn) ==
  /\ getCache[dn].has
  /\ getCache' = CacheDelGet(getCache, dn)
  /\ UNCHANGED <<ufds, listCache, req, lastWrite, probeVars, accountVars, eventVars, relayVars, syncVars, treeVars, raceVars, closeVars, chainVars, bootVars, authzVars>>

\* A List cache entry expires or is evicted.
ExpireList(parent) ==
  /\ listCache[parent].has
  /\ listCache' = CacheDelList(listCache, parent)
  /\ UNCHANGED <<ufds, getCache, req, lastWrite, probeVars, accountVars, eventVars, relayVars, syncVars, treeVars, raceVars, closeVars, chainVars, bootVars, authzVars>>

\* ------------------------------------------------------------------------
\* app.js: App.prototype.accountFromLogin
\* ------------------------------------------------------------------------

Logins == {"bob", "carol"}

\* The most sdcperson entries the directory holds for one login.
MaxPersons == 2

\* How the search for a login ends: the result emits 'error' (the directory
\* is unreachable, or another error), or 'end' with a non-zero or zero status.
SearchEnds == {"error Unavailable", "error Other", "end nonzero", "end"}

NoAccountEntry == [has |-> FALSE, err |-> NoVal, account |-> NoVal]

IdleAcct ==
  [pc |-> "idle", login |-> NoVal, err |-> NoVal, account |-> NoVal,
   searched |-> FALSE, ending |-> NoVal]

AccountCallbackOnly(cache, login, err, account) ==
  [cache |-> cache, err |-> err, account |-> account]

\* cacheAndCallback(err, account) of accountFromLogin
AccountCacheAndCallback(cache, login, err, account) ==
  [cache |-> [cache EXCEPT ![login] =
                [has |-> TRUE, err |-> err, account |-> account]],
   err |-> err, account |-> account]

\* The handlers of the search result: 'error', and 'end' with the entries
\* that 'searchEntry' collected.
AccountSearched(cache, login, n, ending) ==
  IF ending = "error Unavailable"
    THEN AccountCacheAndCallback(cache, login, "Unavailable", NoVal)
  ELSE IF ending = "error Other"
    THEN AccountCacheAndCallback(cache, login, "Other", NoVal)
  ELSE IF ending = "end nonzero"
    THEN AccountCacheAndCallback(cache, login, "non-zero status", NoVal)
  ELSE IF n = 0 THEN AccountCacheAndCallback(cache, login, NoVal, NoVal)
  ELSE IF n = 1 THEN AccountCacheAndCallback(cache, login, NoVal, login)
  ELSE AccountCacheAndCallback(cache, login, "unexpected number of accounts", NoVal)

\* accountFromLogin up to the search: a cached outcome is called back at
\* once, otherwise the directory is searched.
AccountLookup(cache, login) ==
  IF cache[login].has
    THEN [pc |-> "done", login |-> login,
          err |-> cache[login].err,
          account |-> IF cache[login].err # NoVal THEN NoVal
                      ELSE cache[login].account,
          searched |-> FALSE, ending |-> NoVal]
    ELSE [IdleAcct EXCEPT !.pc = "searching", !.login = login]

\* accountFromLogin(login, callback): the cache lookup, then the search.
AccountFromLogin(login) ==
  /\ acct.pc = "idle"
  /\ acct' = AccountLookup(accountCache, login)
  /\ UNCHANGED <<accountCache, persons, storeVars, probeVars, eventVars, relayVars, syncVars, treeVars, raceVars, closeVars, chainVars, bootVars, authzVars>>

\* The search result ends and the callback is called.
AccountSearchEnd(ending) ==
  /\ acct.pc = "searching"
  /\ LET r == AccountSearched(accountCache, acct.login, persons[acct.login], ending) IN
     /\ accountCache' = r.cache
     /\ acct' = [acct EXCEPT !.pc = "done", !.err = r.err, !.account = r.account,
                             !.searched = TRUE, !.ending = ending]
  /\ UNCHANGED <<persons, storeVars, probeVars, eventVars, relayVars, syncVars, treeVars, raceVars, closeVars, chainVars, bootVars, authzVars>>

\* The caller has its answer.
AccountDone ==
  /\ acct.pc = "done"
  /\ acct' = IdleAcct
  /\ UNCHANGED <<accountCache, persons, storeVars, probeVars, eventVars, relayVars, syncVars, treeVars, raceVars, closeVars, chainVars, bootVars, authzVars>>

\* An account cache entry expires or is evicted.
ExpireAccount(login) ==
  /\ accountCache[login].has
  /\ accountCache' = [accountCache EXCEPT ![login] = NoAccountEntry]
  /\ UNCHANGED <<acct, persons, storeVars, probeVars, eventVars, relayVars, syncVars, treeVars, raceVars, closeVars, chainVars, bootVars, authzVars>>

\* ------------------------------------------------------------------------
\* bootstrap.js: the mainline series and createDevzone's wait for the zone
\* ------------------------------------------------------------------------

\* The steps of the mainline's async.series, in order.
BootSteps ==
  <<"ldapClientBind", "ufdsClientBind", "getAdminUuid", "createUsers",
    "addKey", "makeDevaliceAdmin", "ldapClientUnbind", "ufdsClientUnbind",
    "getMapi", "createDevzone", "getMapizone", "getHeadnodeUuid",
    "getAmonClient", "loadAmonObjects", "writeJson">>

\* `var sentinel = 30`
Sentinel == 30

\* The running_status values a zone reports.
ZoneStatuses == {"ready", "running"}

TookTooLong == "took too long for test zone status to become 'running'"

IdleBoot ==
  [pc |-> "series", step |-> 1, zone |-> NoVal, devzone |-> NoVal,
   sentinel |-> 0, polls |-> 0, waited |-> FALSE, err |-> NoVal]

\* The test of async.until: zone.running_status === "running"
UntilTestAlways(zone) == TRUE

UntilTest(zone) == zone = "running"

\* The iterator's guard after `sentinel--`: sentinel <= 0
SentinelSpent(sentinel) == sentinel <= 0

\* next(err) of a step of async.series: an error goes to the final callback,
\* which logs it and exits; otherwise the next step runs, and after the last
\* one the final callback has nothing to do.
SeriesNext(b, err) ==
  IF err # NoVal THEN [b EXCEPT !.pc = "exited", !.err = err]
  ELSE IF b.step = Len(BootSteps) THEN [b EXCEPT !.pc = "done"]
  ELSE [b EXCEPT !.pc = "series", !.step = @ + 1]

\* async.until(test, iterator, callback) from its test: when the test holds
\* the callback sets devzone and calls next(); otherwise the iterator
\* decrements sentinel and either gives up or sets the 3 s timer.
Until(b) ==
  IF UntilTest(b.zone)
    THEN SeriesNext([b EXCEPT !.devzone = b.zone], NoVal)
  ELSE IF SentinelSpent(b.sentinel - 1)
    THEN SeriesNext([b EXCEPT !.sentinel = @ - 1], TookTooLong)
  ELSE [b EXCEPT !.sentinel = @ - 1, !.pc = "timer", !.waited = TRUE]

\* A step of the series other than createDevzone calls next() or next(err).
BootStep(ok) ==
  /\ bs.pc = "series"
  /\ BootSteps[bs.step] # "createDevzone"
  /\ bs' = SeriesNext(bs, IF ok THEN NoVal ELSE "step error")
  /\ UNCHANGED <<storeVars, probeVars, accountVars, eventVars, relayVars, syncVars, treeVars, raceVars, closeVars, chainVars, authzVars>>

\* createDevzone(next): mapi.listZones is called.
CreateDevzone ==
  /\ bs.pc = "series"
  /\ BootSteps[bs.step] = "createDevzone"
  /\ bs' = [bs EXCEPT !.pc = "listZones"]
  /\ UNCHANGED <<storeVars, probeVars, accountVars, eventVars, relayVars, syncVars, treeVars, raceVars, closeVars, chainVars, authzVars>>

\* The callback of mapi.listZones: an error, a zone that exists already
\* (whatever its status), or no zone, and then mapi.listServers is called.
ListZonesCb(outcome) ==
  /\ bs.pc = "listZones"
  /\ bs' = IF outcome = "error" THEN SeriesNext(bs, "listZones error")
           ELSE IF outcome \in ZoneStatuses
             THEN SeriesNext([bs EXCEPT !.devzone = outcome], NoVal)
           ELSE [bs EXCEPT !.pc = "listServers"]
  /\ UNCHANGED <<storeVars, probeVars, accountVars, eventVars, relayVars, syncVars, treeVars, raceVars, closeVars, chainVars, authzVars>>

\* The callback of mapi.listServers: an error, or mapi.createZone is called.
ListServersCb(ok) ==
  /\ bs.pc = "listServers"
  /\ bs' = IF ok THEN [bs EXCEPT !.pc = "createZone"]
           ELSE SeriesNext(bs, "listServers error")
  /\ UNCHANGED <<storeVars, probeVars, accountVars, eventVars, relayVars, syncVars, treeVars, raceVars, closeVars, chainVars, authzVars>>

\* The callback of mapi.createZone: it reads newZone.name before it looks
\* at err, which throws when no zone is passed; with an error it calls
\* next(err); otherwise the wait starts with sentinel = 30.
CreateZoneCb(ok, newZone) ==
  /\ bs.pc = "createZone"
  /\ ok => newZone # NoVal
  /\ bs' = IF newZone = NoVal THEN [bs EXCEPT !.pc = "threw"]
           ELSE IF ~ok THEN SeriesNext(bs, "createZone error")
           ELSE Until([bs EXCEPT !.zone = newZone, !.sentinel = Sentinel])
  /\ UNCHANGED <<storeVars, probeVars, accountVars, eventVars, relayVars, syncVars, treeVars, raceVars, closeVars, chainVars, authzVars>>

\* The 3 s timer fires and mapi.getZone is called.
PollTimer ==
  /\ bs.pc = "timer"
  /\ bs' = [bs EXCEPT !.pc = "getZone", !.polls = @ + 1]
  /\ UNCHANGED <<storeVars, probeVars, accountVars, eventVars, relayVars, syncVars, treeVars, raceVars, closeVars, chainVars, authzVars>>

\* The callback of mapi.getZone: nextCheck(err), or the zone is replaced and
\* nextCheck() runs the test again.
GetZoneCb(outcome) ==
  /\ bs.pc = "getZone"
  /\ bs' = IF outcome = "error" THEN SeriesNext(bs, "getZone error")
           ELSE Until([bs EXCEPT !.zone = outcome])
  /\ UNCHANGED <<storeVars, probeVars, accountVars, eventVars, relayVars, syncVars, treeVars, raceVars, closeVars, chainVars, authzVars>>

\* ------------------------------------------------------------------------
\* app.js: the handler chain of a route: setup, the endpoint, the log
\* ------------------------------------------------------------------------

RoutePing == "/ping"
RoutePub == "/pub/:login"
Routes == {RoutePing, RoutePub}

IdleChain ==
  [pc |-> "idle", route |-> NoVal, login |-> NoVal, account |-> NoVal,
   sent |-> <<>>, ran |-> FALSE, threw |-> FALSE, logged |-> FALSE]

\* req.uriParams.login: set on the routes that hold :login.
UriLogin(route, login) == IF route = RoutePub THEN login ELSE NoVal

\* setup(req, res, next): with a login it calls accountFromLogin, without
\* one it calls next().
Setup(route, login) ==
  /\ ch.pc = "idle"
  /\ acct.pc = "idle"
  /\ IF UriLogin(route, login) # NoVal
       THEN /\ ch' = [IdleChain EXCEPT !.pc = "lookup", !.route = route,
                                       !.login = login]
            /\ acct' = AccountLookup(accountCache, login)
       ELSE /\ ch' = [IdleChain EXCEPT !.pc = "endpoint", !.route = route]
            /\ UNCHANGED acct
  /\ UNCHANGED <<accountCache, persons, storeVars, probeVars, eventVars, relayVars, syncVars, treeVars, raceVars, closeVars, bootVars, authzVars>>

\* The callback setup gives to accountFromLogin: on an error it sends 500
\* and calls next(); without an account it sends 404 and does not call
\* next(); with an account it sets req._account and calls next().
SetupCb ==
  /\ ch.pc = "lookup"
  /\ acct.pc = "done"
  /\ ch' = IF acct.err # NoVal
             THEN [ch EXCEPT !.sent = Append(@, 500), !.pc = "endpoint"]
           ELSE IF acct.account = NoVal
             THEN [ch EXCEPT !.sent = Append(@, 404), !.pc = "stopped"]
           ELSE [ch EXCEPT !.account = acct.account, !.pc = "endpoint"]
  /\ acct' = IdleAcct
  /\ UNCHANGED <<accountCache, persons, storeVars, probeVars, eventVars, relayVars, syncVars, treeVars, raceVars, closeVars, bootVars, authzVars>>

\* ping(req, res, next)
Ping ==
  /\ ch.pc = "endpoint"
  /\ ch.route = RoutePing
  /\ ch' = [ch EXCEPT !.ran = TRUE, !.sent = Append(@, 200), !.pc = "after"]
  /\ UNCHANGED <<accountVars, storeVars, probeVars, eventVars, relayVars, syncVars, treeVars, raceVars, closeVars, bootVars, authzVars>>

\* getAccount(req, res, next): reading account.login throws when
\* req._account is not set.
GetAccount ==
  /\ ch.pc = "endpoint"
  /\ ch.route = RoutePub
  /\ ch' = IF ch.account = NoVal
             THEN [ch EXCEPT !.ran = TRUE, !.threw = TRUE, !.pc = "stopped"]
             ELSE [ch EXCEPT !.ran = TRUE, !.sent = Append(@, 200),
                             !.pc = "after"]
  /\ UNCHANGED <<accountVars, storeVars, probeVars, eventVars, relayVars, syncVars, treeVars, raceVars, closeVars, bootVars, authzVars>>

\* The `after` handler, restify.log.w3c.
LogW3c ==
  /\ ch.pc = "after"
  /\ ch' = [ch EXCEPT !.logged = TRUE, !.pc = "stopped"]
  /\ UNCHANGED <<accountVars, storeVars, probeVars, eventVars, relayVars, syncVars, treeVars, raceVars, closeVars, bootVars, authzVars>>

\* The request is over.
ChainFinish ==
  /\ ch.pc = "stopped"
  /\ ch' = IdleChain
  /\ UNCHANGED <<accountVars, storeVars, probeVars, eventVars, relayVars, syncVars, treeVars, raceVars, closeVars, bootVars, authzVars>>

\* ------------------------------------------------------------------------
\* app.js: App.prototype.processEvent, and the fake fault of a monitor
\* ------------------------------------------------------------------------

EventUuids == {"event-1", "event-2"}

\* The most entries monitor.contacts has.
MaxContacts == 3

\* What the directory and the plugins hold for one entry of
\* monitor.contacts: a contact whose medium has a plugin and whose notify
\* succeeds or fails, a contact whose medium has no plugin, or no contact.
ContactKinds == {"ok", "notifyFails", "noPlugin", "noContact"}

ContactLists == UNION {[1..n -> ContactKinds] : n \in 0..MaxContacts}

\* this.notificationPlugins: the media with a loaded plugin
NotificationPlugins == {"email"}

\* Contact.get calls back with a contact
Resolves(kind) == kind # "noContact"

\* contact.medium
Medium(kind) == IF kind = "noPlugin" THEN "pigeon" ELSE "email"

\* this.notificationPlugins[contact.medium] is defined
HasPlugin(medium) == medium \in NotificationPlugins

\* The error plugin.notify calls back with (none: NoVal).
NotifyErr(kind) == IF kind = "notifyFails" THEN "notify failed" ELSE NoVal

\* The entry resolves and its medium has a plugin: notify is due.
Eligible(kind) == Resolves(kind) /\ HasPlugin(Medium(kind))

\* How Monitor.get ends.
MonitorOutcomes == {"found", "ResourceNotFound", "Unavailable"}

IdleEv ==
  [pc |-> "idle", source |-> "none", uuid |-> NoVal, replay |-> FALSE,
   dispatched |-> FALSE, resolved |-> FALSE, st |-> <<>>, notified |-> <<>>,
   c |-> 0, errState |-> NoVal, called |-> 0, err |-> NoVal,
   warned |-> FALSE, response |-> NoVal]

NoFirst == [seen |-> FALSE, err |-> NoVal]

\* The number of notify calls the dispatch has made.
RECURSIVE SumTo(_, _)
SumTo(counts, i) == IF i = 0 THEN 0 ELSE counts[i] + SumTo(counts, i - 1)

NotifyCalls(e) == SumTo(e.notified, Len(e.notified))

AllDoneEarly(c) == c <= 1

\* `c -- === 0`: the count before the decrement is compared
AllDonePostDecrement(c) == c + 1 = 0

\* asyncForEach: `-- c === 0`, with c already decremented
AllDone(c) == c = 0

\* asyncForEach: the callback given to fn, called with er.  fire says
\* whether cb is called, and arg with what.
ForEachCb(c, errState, er) ==
  IF errState # NoVal
    THEN [c |-> c, errState |-> errState, fire |-> FALSE, arg |-> NoVal]
  ELSE IF er # NoVal
    THEN [c |-> c, errState |-> er, fire |-> TRUE, arg |-> er]
  ELSE [c |-> c - 1, errState |-> NoVal, fire |-> AllDone(c - 1), arg |-> NoVal]

GetFailedCbErr(err) == err

\* getAndNotifyContact, Contact.get failed: `return cb()`
GetFailedCb(err) == NoVal

\* getAndNotifyContact, the callback of notifyContact: `return cb()`
NotifiedCb(err) == NoVal

DispatchResultSurfaced(er, warned) == IF warned THEN "InternalError" ELSE er

\* The callback of asyncForEach in processEvent: `callback()`
DispatchResult(er, warned) == NoVal

\* processEvent's callback is called with err; the fake fault answers in it.
Callback(e, err) ==
  [e EXCEPT !.pc = "done", !.err = err,
            !.called = IF @ < 2 THEN @ + 1 ELSE @,
            !.response = IF e.source # "fakefault" THEN @
                         ELSE IF err # NoVal THEN "InternalError" ELSE "success"]

\* One callback of asyncForEach's fn in the dispatch e, called with er.
FnCallback(e, er) ==
  LET f == ForEachCb(e.c, e.errState, er)
      e2 == [e EXCEPT !.c = f.c, !.errState = f.errState] IN
  IF f.fire THEN Callback(e2, DispatchResult(f.arg, e2.warned)) ELSE e2

\* processEvent(event, callback): Monitor.get is called.
PostEvent(u) ==
  /\ ev.pc = "idle"
  /\ ev' = [IdleEv EXCEPT !.pc = "monitorGet", !.source = "event", !.uuid = u,
                          !.replay = evlog[u].seen, !.dispatched = TRUE]
  /\ UNCHANGED <<mon, evlog, storeVars, probeVars, accountVars, relayVars, syncVars, treeVars, raceVars, closeVars, chainVars, bootVars, authzVars>>

\* apiFakeMonitorFault: Monitor.get is called.
FakeFault ==
  /\ ev.pc = "idle"
  /\ ev' = [IdleEv EXCEPT !.pc = "fakeGet", !.source = "fakefault"]
  /\ UNCHANGED <<mon, evlog, storeVars, probeVars, accountVars, relayVars, syncVars, treeVars, raceVars, closeVars, chainVars, bootVars, authzVars>>

\* apiFakeMonitorFault: the callback of Monitor.get; processEvent is called
\* with the test event.
FakeMonitorGetCb(outcome) ==
  /\ ev.pc = "fakeGet"
  /\ ev' = IF outcome # "found"
             THEN [ev EXCEPT !.pc = "done", !.response = outcome]
             ELSE [ev EXCEPT !.pc = "monitorGet", !.dispatched = TRUE]
  /\ UNCHANGED <<mon, evlog, storeVars, probeVars, accountVars, relayVars, syncVars, treeVars, raceVars, closeVars, chainVars, bootVars, authzVars>>

\* processEvent: the callback of Monitor.get; asyncForEach starts
\* getAndNotifyContact on every entry of monitor.contacts.
MonitorGetCb(outcome) ==
  /\ ev.pc = "monitorGet"
  /\ ev' = IF outcome # "found" THEN Callback(ev, outcome)
           ELSE LET e == [ev EXCEPT !.pc = "contacts", !.resolved = TRUE,
                                    !.st = [i \in 1..Len(mon) |-> "get"],
                                    !.notified = [i \in 1..Len(mon) |-> 0],
                                    !.c = Len(mon)] IN
                IF Len(mon) = 0
                  THEN Callback(e, DispatchResult(NoVal, e.warned))
                  ELSE e
  /\ UNCHANGED <<mon, evlog, storeVars, probeVars, accountVars, relayVars, syncVars, treeVars, raceVars, closeVars, chainVars, bootVars, authzVars>>

\* getAndNotifyContact: the callback of Contact.get for entry i, and
\* notifyContact up to the call of plugin.notify.
ContactGetCb(i) ==
  /\ ev.pc \in {"contacts", "done"}
  /\ i \in 1..Len(ev.st) /\ ev.st[i] = "get"
  /\ ev' = IF ~Resolves(mon[i])
             THEN FnCallback([ev EXCEPT !.st[i] = "done", !.warned = TRUE],
                             GetFailedCb("no contact"))
           ELSE IF ~HasPlugin(Medium(mon[i]))
             THEN FnCallback([ev EXCEPT !.st[i] = "done", !.warned = TRUE],
                             NotifiedCb("notification plugin not found"))
           ELSE [ev EXCEPT !.st[i] = "notify", !.notified[i] = @ + 1]
  /\ UNCHANGED <<mon, evlog, storeVars, probeVars, accountVars, relayVars, syncVars, treeVars, raceVars, closeVars, chainVars, bootVars, authzVars>>

\* getAndNotifyContact: the callback of plugin.notify for entry i.
NotifyCb(i) ==
  /\ ev.pc \in {"contacts", "done"}
  /\ i \in 1..Len(ev.st) /\ ev.st[i] = "notify"
  /\ ev' = FnCallback([ev EXCEPT !.st[i] = "done",
                                 !.warned = @ \/ NotifyErr(mon[i]) # NoVal],
                      NotifiedCb(NotifyErr(mon[i])))
  /\ UNCHANGED <<mon, evlog, storeVars, probeVars, accountVars, relayVars, syncVars, treeVars, raceVars, closeVars, chainVars, bootVars, authzVars>>

\* The caller has its answer and every callback has run; the Master takes
\* the next event.
EventFinish ==
  /\ ev.pc = "done"
  /\ \A i \in 1..Len(ev.st) : ev.st[i] = "done"
  /\ evlog' = IF ev.source = "event" /\ ~evlog[ev.uuid].seen
                THEN [evlog EXCEPT ![ev.uuid] = [seen |-> TRUE, err |-> ev.err]]
                ELSE evlog
  /\ ev' = IdleEv
  /\ UNCHANGED <<mon, storeVars, probeVars, accountVars, relayVars, syncVars, treeVars, raceVars, closeVars, chainVars, bootVars, authzVars>>

\* ------------------------------------------------------------------------
\* relay/lib/agentprobes.js: HEAD and GET /agentprobes
\* ------------------------------------------------------------------------

\* req._targetType and req._targetUuid: a zone and the global zone.
Targets == {"zone-A", "server-A"}

\* The content of a target's .content-md5 file (NoVal: no such file).
Md5Contents == {NoVal, "md5-one", "md5-two"}

\* The content of a target's .json file, and the values it parses to.
JsonEmptyText == "[]"
JsonProbesText == "[{probe}]"
EmptyList == "LIST_EMPTY"
ProbeList == "LIST_PROBE"
JsonContents == {NoVal, JsonEmptyText, JsonProbesText}

\* res.send(200, data): the text of the file, not parsed
RelayParseRaw(text) == text

\* JSON.parse(data) of a .json file
RelayParse(text) == IF text = JsonEmptyText THEN EmptyList ELSE ProbeList

\* fs.readFile(path, cb): ENOENT when the file does not exist; a file that
\* exists is read, or the read fails otherwise.
ReadFile(content, fails) ==
  IF content = NoVal THEN [err |-> "ENOENT", data |-> NoVal]
  ELSE IF fails THEN [err |-> "EIO", data |-> NoVal]
  ELSE [err |-> NoVal, data |-> content]

NoResponse == [code |-> 0, md5 |-> NoVal, body |-> NoVal]

IdleRelay(md5, json) ==
  [md5 |-> md5, json |-> json, pc |-> "idle", op |-> "none", target |-> NoVal,
   readErr |-> NoVal, res |-> NoResponse]

\* headAgentProbes: `false && err.code === "ENOENT"`
HeadEmptyOnEnoent(err) == FALSE /\ err = "ENOENT"

\* listAgentProbes with the test of headAgentProbes: `false && ...`
ListEmptyOnEnoentNever(err) == FALSE /\ err = "ENOENT"

\* listAgentProbes: `err.code === "ENOENT"`
ListEmptyOnEnoent(err) == err = "ENOENT"

\* headAgentProbes: the .content-md5 file of the target is read.
HeadAgentProbes(t) ==
  /\ rl.pc = "idle"
  /\ rl' = [rl EXCEPT !.pc = "read", !.op = "head", !.target = t]
  /\ UNCHANGED <<storeVars, probeVars, accountVars, eventVars, syncVars, treeVars, raceVars, closeVars, chainVars, bootVars, authzVars>>

\* headAgentProbes: the callback of fs.readFile.
HeadReadCb(fails) ==
  /\ rl.pc = "read" /\ rl.op = "head"
  /\ LET r == ReadFile(rl.md5[rl.target], fails) IN
     rl' = [rl EXCEPT
              !.pc = "done", !.readErr = r.err,
              !.res = IF r.err # NoVal
                        THEN IF HeadEmptyOnEnoent(r.err)
                               THEN [code |-> 200, md5 |-> NoVal, body |-> EmptyList]
                               ELSE [code |-> 500, md5 |-> NoVal, body |-> "InternalError"]
                        ELSE [code |-> 200, md5 |-> r.data, body |-> NoVal]]
  /\ UNCHANGED <<storeVars, probeVars, accountVars, eventVars, syncVars, treeVars, raceVars, closeVars, chainVars, bootVars, authzVars>>

\* listAgentProbes: the .json file of the target is read.
ListAgentProbes(t) ==
  /\ rl.pc = "idle"
  /\ rl' = [rl EXCEPT !.pc = "read", !.op = "list", !.target = t]
  /\ UNCHANGED <<storeVars, probeVars, accountVars, eventVars, syncVars, treeVars, raceVars, closeVars, chainVars, bootVars, authzVars>>

\* listAgentProbes: the callback of fs.readFile.
ListReadCb(fails) ==
  /\ rl.pc = "read" /\ rl.op = "list"
  /\ LET r == ReadFile(rl.json[rl.target], fails) IN
     rl' = [rl EXCEPT
              !.pc = "done", !.readErr = r.err,
              !.res = IF r.err # NoVal
                        THEN IF ListEmptyOnEnoent(r.err)
                               THEN [code |-> 200, md5 |-> NoVal, body |-> EmptyList]
                               ELSE [code |-> 500, md5 |-> NoVal, body |-> NoVal]
                        ELSE [code |-> 200, md5 |-> NoVal, body |-> RelayParse(r.data)]]
  /\ UNCHANGED <<storeVars, probeVars, accountVars, eventVars, syncVars, treeVars, raceVars, closeVars, chainVars, bootVars, authzVars>>

\* next(): the relay takes the next request.
RelayFinish ==
  /\ rl.pc = "done"
  /\ rl' = IdleRelay(rl.md5, rl.json)
  /\ UNCHANGED <<storeVars, probeVars, accountVars, eventVars, syncVars, treeVars, raceVars, closeVars, chainVars, bootVars, authzVars>>

\* ------------------------------------------------------------------------
\* The relay's poll loop: one per target, it fetches the target's manifest
\* from the Master and rewrites the two data files of the target
\* ------------------------------------------------------------------------

\* The bodies the Master answers GET /agentprobes with.
Manifests == {JsonEmptyText, JsonProbesText}

\* How often the Master's probes of the targets change.
MaxChanges == 1

\* base64(md5(body)), computed before writing
ContentMd5(body) == IF body = JsonEmptyText THEN "md5-one" ELSE "md5-two"

\* "if the returned body's content hash differs from the one on disk"
ManifestChangedNever(body, diskMd5) == FALSE

ManifestChanged(body, diskMd5) == ContentMd5(body) # diskMd5

\* A write that leaves part of the content under the file's name.
WriteFileInPlace(content) == "partial"

\* write to temp, rename: the file's name shows the whole new content.
WriteFile(content) == content

IdleLoop == [pc |-> "idle", body |-> NoVal]

\* A probe of the target is put or deleted at the Master.
MasterChange(t, b) ==
  /\ pl.changes < MaxChanges
  /\ b # pl.master[t]
  /\ pl' = [pl EXCEPT !.master[t] = b, !.changes = @ + 1,
                       !.changed = @ \cup {t}]
  /\ UNCHANGED <<storeVars, probeVars, accountVars, eventVars, relayVars, treeVars, raceVars, closeVars, chainVars, bootVars, authzVars>>

\* A poll tick of the target's loop: GET /agentprobes at the Master. A
\* tick that overlaps the running one is skipped.
PollTick(t) ==
  /\ pl.loop[t].pc = "idle"
  /\ pl' = [pl EXCEPT !.loop[t].pc = "fetch"]
  /\ UNCHANGED <<storeVars, probeVars, accountVars, eventVars, relayVars, treeVars, raceVars, closeVars, chainVars, bootVars, authzVars>>

\* The Master's answer: a failed poll is logged and retried; a body whose
\* hash is the one on disk is dropped; any other body is to be written.
PollFetchCb(t, ok) ==
  /\ pl.loop[t].pc = "fetch"
  /\ pl' = IF ok /\ ManifestChanged(pl.master[t], rl.md5[t])
             THEN [pl EXCEPT !.loop[t] = [pc |-> "writeJson", body |-> pl.master[t]]]
             ELSE [pl EXCEPT !.loop[t] = IdleLoop]
  /\ UNCHANGED <<storeVars, probeVars, accountVars, eventVars, relayVars, treeVars, raceVars, closeVars, chainVars, bootVars, authzVars>>

\* <type>-<uuid>.json is replaced by the body.
PollWriteJson(t) ==
  /\ pl.loop[t].pc = "writeJson"
  /\ rl' = [rl EXCEPT !.json[t] = WriteFile(pl.loop[t].body)]
  /\ pl' = [pl EXCEPT !.loop[t].pc = "writeMd5"]
  /\ UNCHANGED <<storeVars, probeVars, accountVars, eventVars, treeVars, raceVars, closeVars, chainVars, bootVars, authzVars>>

\* <type>-<uuid>.json.content-md5 is replaced by the body's hash.
PollWriteMd5(t) ==
  /\ pl.loop[t].pc = "writeMd5"
  /\ rl' = [rl EXCEPT !.md5[t] = WriteFile(ContentMd5(pl.loop[t].body))]
  /\ pl' = [pl EXCEPT !.loop[t] = IdleLoop]
  /\ UNCHANGED <<storeVars, probeVars, accountVars, eventVars, treeVars, raceVars, closeVars, chainVars, bootVars, authzVars>>

\* ------------------------------------------------------------------------
\* monitors.js: the Monitor model, PUT and DELETE of a monitor
\* ------------------------------------------------------------------------

MonitorObjectclass == "amonmonitor"

\* Monitor._nameRegex.test(name)
MonitorNameRegex(s) == s \in NameStrings

NoMonitorRaw == [amonmonitor |-> NoVal, contact |-> NoVal, objectclass |-> NoVal]

\* app.ufdsAdd and app.ufdsDelete of a monitor entry
UfdsAddMonitor(u, dn, raw, outcome) ==
  IF outcome # "answer" THEN [err |-> outcome, ufds |-> u]
  ELSE IF u[dn].objectclass # NoVal THEN [err |-> "AlreadyExists", ufds |-> u]
  ELSE [err |-> NoVal, ufds |-> [u EXCEPT ![dn] = raw]]

UfdsDeleteMonitor(u, dn, outcome) ==
  IF outcome # "answer" THEN [err |-> outcome, ufds |-> u]
  ELSE IF u[dn].objectclass = NoVal THEN [err |-> "NoSuchObject", ufds |-> u]
  ELSE [err |-> NoVal, ufds |-> [u EXCEPT ![dn] = NoMonitorRaw]]

\* data.contacts of a request: absent, one contact name, an array of names.
ContactOne == "fooEmail"
ContactArray == "[fooEmail]"
ContactsValues == {NoVal, ContactOne, ContactArray}

\* `if (!(raw.contact instanceof Array)) raw.contact = [raw.contact]`
WrapContact(c) == IF c = ContactOne THEN ContactArray ELSE c

\* Monitor.validate: amonmonitor and contact are required.
MonitorValidate(raw) ==
  IF ~Truthy(raw.amonmonitor)
    THEN [ok |-> FALSE, kind |-> "MissingParameter", raw |-> NoMonitorRaw]
  ELSE IF ~Truthy(raw.contact)
    THEN [ok |-> FALSE, kind |-> "MissingParameter", raw |-> NoMonitorRaw]
  ELSE [ok |-> TRUE, kind |-> NoVal,
        raw |-> [raw EXCEPT !.contact = WrapContact(raw.contact)]]

\* new Monitor(app, data) for the public representation of a request, and
\* (data.objectclass set) for a record of the directory.
MonitorNew(data) ==
  LET raw == IF data.objectclass # NoVal
               THEN [amonmonitor |-> data.amonmonitor, contact |-> data.contact,
                     objectclass |-> data.objectclass]
               ELSE [amonmonitor |-> data.name, contact |-> data.contacts,
                     objectclass |-> MonitorObjectclass]
      dn == IF data.objectclass # NoVal THEN data.dn
            ELSE ParentDn(data.user, data.name)
      v == MonitorValidate(raw) IN
  IF ~MonitorNameRegex(raw.amonmonitor)
    THEN [ok |-> FALSE, kind |-> "InvalidArgument", dn |-> dn, raw |-> NoMonitorRaw]
  ELSE [ok |-> v.ok, kind |-> v.kind, dn |-> dn, raw |-> v.raw]

\* A request's data: the route parameters and the body's contacts.
MonitorData(name, contacts) ==
  [objectclass |-> NoVal, dn |-> NoDn, amonmonitor |-> NoVal, contact |-> NoVal,
   name |-> name, user |-> UuidBob, contacts |-> contacts]

\* A monitor entry as ufdsSearch returns it.
MonitorEntry(dn, raw) ==
  [objectclass |-> raw.objectclass, dn |-> dn, amonmonitor |-> raw.amonmonitor,
   contact |-> raw.contact, name |-> NoVal, user |-> NoVal, contacts |-> NoVal]

IdleMreq == [op |-> "idle", pc |-> "idle", dn |-> NoDn, raw |-> NoMonitorRaw,
             kind |-> NoVal]

\* apiPutMonitor / requestPut / modelPut: the Monitor is constructed,
\* Monitor.prototype.authorizePut calls back at once, ufdsAdd is sent.
StartPutMonitor(name, contacts) ==
  /\ mreq.pc = "idle"
  /\ LET m == MonitorNew(MonitorData(name, contacts)) IN
     mreq' = IF ~m.ok
               THEN [IdleMreq EXCEPT !.op = "put", !.pc = "done", !.kind = m.kind]
               ELSE [IdleMreq EXCEPT !.op = "put", !.pc = "add", !.dn = m.dn,
                                     !.raw = m.raw]
  /\ UNCHANGED <<mons, storeVars, probeVars, accountVars, eventVars, relayVars, syncVars, raceVars, closeVars, chainVars, bootVars, authzVars>>

\* modelPut: the callback of ufdsAdd. The Monitor caches hold entries only
\* after a GET or a list of monitors, which are not among these requests,
\* so cacheInvalidatePut finds nothing to drop.
MonitorAddCb(outcome) ==
  /\ mreq.op = "put" /\ mreq.pc = "add"
  /\ LET a == UfdsAddMonitor(mons, mreq.dn, mreq.raw, outcome) IN
     /\ mons' = a.ufds
     /\ mreq' = [mreq EXCEPT !.pc = "done", !.kind = a.err]
  /\ UNCHANGED <<storeVars, probeVars, accountVars, eventVars, relayVars, syncVars, raceVars, closeVars, chainVars, bootVars, authzVars>>

\* apiDeleteMonitor / requestDelete / modelDelete: modelGet without the
\* cache. The child probes are not looked at
\* (`XXX:TODO: handle traversing child Probes and deleting them`).
StartDeleteMonitor(name) ==
  /\ mreq.pc = "idle"
  /\ mreq' = IF ~MonitorNameRegex(name)
               THEN [IdleMreq EXCEPT !.op = "delete", !.pc = "done",
                                     !.kind = "InvalidArgument"]
               ELSE [IdleMreq EXCEPT !.op = "delete", !.pc = "search",
                                     !.dn = ParentDn(UuidBob, name)]
  /\ UNCHANGED <<mons, storeVars, probeVars, accountVars, eventVars, relayVars, syncVars, raceVars, closeVars, chainVars, bootVars, authzVars>>

\* modelDelete: the callback of its modelGet.
MonitorDeleteSearchCb(outcome) ==
  /\ mreq.op = "delete" /\ mreq.pc = "search"
  /\ mreq' =
       IF outcome # "answer" THEN [mreq EXCEPT !.pc = "done", !.kind = outcome]
       ELSE IF mons[mreq.dn] = NoMonitorRaw
         THEN [mreq EXCEPT !.pc = "done", !.kind = "ResourceNotFound"]
       ELSE IF ~MonitorNew(MonitorEntry(mreq.dn, mons[mreq.dn])).ok
         THEN [mreq EXCEPT !.pc = "done", !.kind = "InternalError"]
       ELSE [mreq EXCEPT !.pc = "delete"]
  /\ UNCHANGED <<mons, storeVars, probeVars, accountVars, eventVars, relayVars, syncVars, raceVars, closeVars, chainVars, bootVars, authzVars>>

\* modelDelete: the callback of ufdsDelete.
MonitorDeleteCb(outcome) ==
  /\ mreq.op = "delete" /\ mreq.pc = "delete"
  /\ LET d == UfdsDeleteMonitor(mons, mreq.dn, outcome) IN
     /\ mons' = d.ufds
     /\ mreq' = [mreq EXCEPT !.pc = "done", !.kind = d.err]
  /\ UNCHANGED <<storeVars, probeVars, accountVars, eventVars, relayVars, syncVars, raceVars, closeVars, chainVars, bootVars, authzVars>>

\* The response has been sent.
MonitorFinish ==
  /\ mreq.pc = "done"
  /\ mreq' = IdleMreq
  /\ UNCHANGED <<mons, storeVars, probeVars, accountVars, eventVars, relayVars, syncVars, raceVars, closeVars, chainVars, bootVars, authzVars>>

\* ------------------------------------------------------------------------
\* app.js: App.prototype.listen and App.prototype.close
\* ------------------------------------------------------------------------

\* The most connections the HTTP server has at a time.
MaxConns == 4

Conns == 1..MaxConns

\* new App(config, ufds): the server is created, the directory client is
\* bound, close has not been called.
NewApp ==
  [server |-> "new", conn |-> [c \in Conns |-> "none"], closeCalled |-> FALSE,
   listener |-> FALSE, ufds |-> "bound", called |-> 0]

\* close() with the unbind started at the call, not in a listener.
UnbindsOnCall(event) == event = "call"

\* `this.server.on('close', function () { self.ufds.unbind(...) })`
UnbindsOn(event) == event = "close"

\* App.prototype.listen: this.server.listen(port, callback)
Listen ==
  /\ cl.server = "new"
  /\ cl' = [cl EXCEPT !.server = "listening"]
  /\ UNCHANGED <<storeVars, probeVars, accountVars, eventVars, relayVars, syncVars, treeVars, raceVars, chainVars, bootVars, authzVars>>

\* A client connects; a server that is closing accepts nothing.
Accept(c) ==
  /\ cl.server = "listening" /\ cl.conn[c] = "none"
  /\ cl' = [cl EXCEPT !.conn[c] = "idle"]
  /\ UNCHANGED <<storeVars, probeVars, accountVars, eventVars, relayVars, syncVars, treeVars, raceVars, chainVars, bootVars, authzVars>>

\* A request arrives on a connection and its handler chain runs.
Request(c) ==
  /\ cl.conn[c] = "idle"
  /\ cl' = [cl EXCEPT !.conn[c] = "busy"]
  /\ UNCHANGED <<storeVars, probeVars, accountVars, eventVars, relayVars, syncVars, treeVars, raceVars, chainVars, bootVars, authzVars>>

\* The response is sent; the connection is kept.
Respond(c) ==
  /\ cl.conn[c] = "busy"
  /\ cl' = [cl EXCEPT !.conn[c] = "idle"]
  /\ UNCHANGED <<storeVars, probeVars, accountVars, eventVars, relayVars, syncVars, treeVars, raceVars, chainVars, bootVars, authzVars>>

\* A connection ends.
ConnEnd(c) ==
  /\ cl.conn[c] \in {"idle", "busy"}
  /\ cl' = [cl EXCEPT !.conn[c] = "none"]
  /\ UNCHANGED <<storeVars, probeVars, accountVars, eventVars, relayVars, syncVars, treeVars, raceVars, chainVars, bootVars, authzVars>>

\* App.prototype.close(callback), called once on a listening App: the
\* listener of 'close' is registered and server.close() stops the server
\* from accepting.
Close ==
  /\ cl.server = "listening" /\ ~cl.closeCalled
  /\ cl' = [cl EXCEPT !.closeCalled = TRUE, !.listener = UnbindsOn("close"),
                      !.server = "closing",
                      !.ufds = IF UnbindsOn("call") THEN "unbinding" ELSE @]
  /\ UNCHANGED <<storeVars, probeVars, accountVars, eventVars, relayVars, syncVars, treeVars, raceVars, chainVars, bootVars, authzVars>>

\* The server emits 'close' once its last connection has ended; the
\* listener calls self.ufds.unbind.
EmitClose ==
  /\ cl.server = "closing"
  /\ \A c \in Conns : cl.conn[c] = "none"
  /\ cl' = [cl EXCEPT !.server = "closed",
                      !.ufds = IF cl.listener /\ @ = "bound" THEN "unbinding" ELSE @]
  /\ UNCHANGED <<storeVars, probeVars, accountVars, eventVars, relayVars, syncVars, treeVars, raceVars, chainVars, bootVars, authzVars>>

\* The callback of unbind: `return callback()`
UnbindCb ==
  /\ cl.ufds = "unbinding"
  /\ cl' = [cl EXCEPT !.ufds = "unbound",
                      !.called = IF @ < 2 THEN @ + 1 ELSE @]
  /\ UNCHANGED <<storeVars, probeVars, accountVars, eventVars, relayVars, syncVars, treeVars, raceVars, chainVars, bootVars, authzVars>>

\* ------------------------------------------------------------------------
\* Specifications
\* ------------------------------------------------------------------------

StoreIdle ==
  /\ ufds = [dn \in Dns |-> NoRaw]
  /\ getCache = [dn \in Dns |-> NoGetEntry]
  /\ listCache = [p \in ParentDns |-> NoListEntry]
  /\ req = IdleReq
  /\ lastWrite = [dn \in Dns |-> NoWrite]

ProbeUnused ==
  /\ pin = AsData(NoSer)
  /\ pres = NoRes
  /\ pauth = NoAuth
  /\ prt = NoRes

AccountUnused ==
  /\ accountCache = [l \in Logins |-> NoAccountEntry]
  /\ acct = IdleAcct
  /\ persons = [l \in Logins |-> 0]

EventUnused ==
  /\ mon = <<>>
  /\ ev = IdleEv
  /\ evlog = [u \in EventUuids |-> NoFirst]

RelayUnused ==
  rl = IdleRelay([t \in Targets |-> NoVal], [t \in Targets |-> NoVal])

RaceUnused == rd = IdleRd

CloseUnused == cl = NewApp

ChainUnused == ch = IdleChain

BootUnused == bs = IdleBoot

AuthzUnused == az = IdleAuthz

TreeUnused ==
  /\ mons = [p \in ParentDns |-> NoMonitorRaw]
  /\ mreq = IdleMreq

SyncUnused ==
  pl = [master |-> [t \in Targets |-> JsonEmptyText], changes |-> 0,
        changed |-> {}, loop |-> [t \in Targets |-> IdleLoop]]

\* The Master serving list/get/put/delete of probes, one request at a time.
Init == StoreIdle /\ ProbeUnused /\ AccountUnused /\ EventUnused /\ RelayUnused /\ SyncUnused /\ TreeUnused /\ RaceUnused /\ CloseUnused /\ ChainUnused /\ BootUnused /\ AuthzUnused

Next ==
  \/ \E dn \in Dns : StartGet(dn)
  \/ \E o \in DirOutcomes : GetSearchCb(o)
  \/ \E p \in ParentDns : StartList(p)
  \/ \E o \in DirOutcomes : ListSearchCb(o)
  \/ \E n \in {NameP, NameQ}, b \in PutBodies : StartPut(n, b)
  \/ \E w \in AuthWorlds : PutAuthCb(w)
  \/ \E o \in DirOutcomes : PutAddCb(o)
  \/ \E dn \in Dns : StartDelete(dn)
  \/ \E o \in DirOutcomes : DeleteSearchCb(o)
  \/ \E o \in DirOutcomes : DeleteCb(o)
  \/ Finish
  \/ \E dn \in Dns : ExpireGet(dn)
  \/ \E p \in ParentDns : ExpireList(p)

Spec == Init /\ [][Next]_vars

\* The Probe constructor and authorizePut, on every bounded input.
InitProbe ==
  /\ pin \in ProbeInputs
  /\ pres = NoRes
  /\ pauth = NoAuth
  /\ prt = NoRes
  /\ StoreIdle /\ AccountUnused /\ EventUnused /\ RelayUnused /\ SyncUnused /\ TreeUnused /\ RaceUnused /\ CloseUnused /\ ChainUnused /\ BootUnused /\ AuthzUnused

NextProbe ==
  \/ Construct
  \/ \E w \in AuthWorlds : Authorize(w)
  \/ Reingest

\* The same Master with a directory that may also end the search of a DN
\* that holds no entry with zero entries.
NextAbsent ==
  \/ Next
  \/ GetSearchCb(NoEntries)
  \/ DeleteSearchCb(NoEntries)

SpecAbsent == Init /\ [][NextAbsent]_vars

\* PUT and DELETE of probes and of monitors at the Master.
NextTree ==
  \/ \E n \in {NameP, NameQ}, b \in PutBodies : StartPut(n, b)
  \/ \E w \in AuthWorlds : PutAuthCb(w)
  \/ \E o \in DirOutcomes : PutAddCb(o)
  \/ \E dn \in Dns : StartDelete(dn)
  \/ \E o \in DirOutcomes : DeleteSearchCb(o)
  \/ \E o \in DirOutcomes : DeleteCb(o)
  \/ Finish
  \/ \E n \in {MonitorW, BadName}, c \in ContactsValues : StartPutMonitor(n, c)
  \/ \E o \in DirOutcomes : MonitorAddCb(o)
  \/ \E n \in {MonitorW, BadName} : StartDeleteMonitor(n)
  \/ \E o \in DirOutcomes : MonitorDeleteSearchCb(o)
  \/ \E o \in DirOutcomes : MonitorDeleteCb(o)
  \/ MonitorFinish

SpecTree == Init /\ [][NextTree]_vars

\* Two requests in progress at the Master: req, and the GET rd.
NextRace ==
  \/ \E dn \in Dns : RdStartGet(dn)
  \/ \E o \in DirOutcomes : RdSearchAnswered(o)
  \/ RdSearchCb
  \/ RdFinish
  \/ \E dn \in Dns : StartGet(dn)
  \/ \E o \in DirOutcomes : GetSearchCb(o)
  \/ \E n \in {NameP}, b \in {BodyA, BodyB} : StartPut(n, b)
  \/ \E w \in AuthWorlds : PutAuthCb(w)
  \/ \E o \in DirOutcomes : PutAddCb(o)
  \/ \E dn \in Dns : StartDelete(dn)
  \/ \E o \in DirOutcomes : DeleteSearchCb(o)
  \/ \E o \in DirOutcomes : DeleteCb(o)
  \/ Finish

SpecRace == Init /\ [][NextRace]_vars

\* The App from its construction to its close.
NextClose ==
  \/ Listen
  \/ \E c \in Conns : Accept(c)
  \/ \E c \in Conns : Request(c)
  \/ \E c \in Conns : Respond(c)
  \/ \E c \in Conns : ConnEnd(c)
  \/ Close
  \/ EmitClose
  \/ UnbindCb

SpecClose == Init /\ [][NextClose]_vars

\* Requests are answered, every connection ends at some point, events are
\* delivered and the directory answers the unbind.
FairClose ==
  /\ \A c \in Conns : WF_vars(Respond(c)) /\ SF_vars(ConnEnd(c))
  /\ WF_vars(EmitClose)
  /\ WF_vars(UnbindCb)

SpecCloseLive == SpecClose /\ FairClose

\* Records the directory can hold at a DN: none, a probe as a PUT stores it,
\* a record of a type no plugin handles, and a probe with a global attribute
\* although its type does not run in the global zone.
RawGood(dn) ==
  ProbeNew(AsData(RequestPutData(RouteParams(dn[3]), BodyA, UuidBob))).raw

RawBogus(dn) == [RawGood(dn) EXCEPT !.type = "bogus"]

RawStaleGlobal(dn) == [RawGood(dn) EXCEPT !.global = "true"]

DirRaws(dn) == {NoRaw, RawGood(dn), RawBogus(dn), RawStaleGlobal(dn)}

\* Cached data from which `new Model(app, data)` throws.
CorruptSer(dn) ==
  [Serialize(ProbeNew(AsEntry(dn, RawGood(dn))), FALSE) EXCEPT !.type = "bogus"]

CorruptGetEntry(dn) == [has |-> TRUE, err |-> NoVal, data |-> CorruptSer(dn)]

CorruptListEntry == [has |-> TRUE, err |-> NoVal, data |-> <<CorruptSer(DnP)>>]

\* GET and LIST of probes over each content of the directory, with caches
\* that are empty or hold data that does not construct; nothing is written.
InitRead ==
  /\ ufds \in {u \in [Dns -> UNION {DirRaws(dn) : dn \in Dns}] :
                 \A dn \in Dns : u[dn] \in DirRaws(dn)}
  /\ getCache \in {g \in [Dns -> {NoGetEntry} \cup {CorruptGetEntry(dn) : dn \in Dns}] :
                     \A dn \in Dns : g[dn] \in {NoGetEntry, CorruptGetEntry(dn)}}
  /\ listCache \in [ParentDns -> {NoListEntry, CorruptListEntry}]
  /\ req = IdleReq
  /\ lastWrite = [dn \in Dns |-> NoWrite]
  /\ ProbeUnused /\ AccountUnused /\ EventUnused /\ RelayUnused /\ SyncUnused /\ TreeUnused /\ RaceUnused /\ CloseUnused /\ ChainUnused /\ BootUnused /\ AuthzUnused

NextRead ==
  \/ \E dn \in Dns : StartGet(dn)
  \/ \E o \in DirOutcomes \cup {NoEntries} : GetSearchCb(o)
  \/ \E p \in ParentDns : StartList(p)
  \/ \E o \in DirOutcomes : ListSearchCb(o)
  \/ Finish
  \/ \E dn \in Dns : ExpireGet(dn)
  \/ \E p \in ParentDns : ExpireList(p)

SpecRead == InitRead /\ [][NextRead]_vars

SpecProbe == InitProbe /\ [][NextProbe]_vars

\* authorizePut from lookup to lookup, for each probe and each outcome of
\* the lookups.
NextAuthz ==
  \/ \E i \in AuthzItems, w \in AuthWorlds : AuthzStart(i, w)
  \/ AuthzGetMachineCb
  \/ AuthzMachineAnyCb
  \/ AuthzOperator3Cb
  \/ AuthzIsOperatorCb
  \/ AuthzServerExistsCb
  \/ AuthzFinish

SpecAuthz == Init /\ [][NextAuthz]_vars

\* Each lookup calls back.
FairAuthz ==
  /\ WF_vars(AuthzGetMachineCb)
  /\ WF_vars(AuthzMachineAnyCb)
  /\ WF_vars(AuthzOperator3Cb)
  /\ WF_vars(AuthzIsOperatorCb)
  /\ WF_vars(AuthzServerExistsCb)

SpecAuthzLive == SpecAuthz /\ FairAuthz

\* accountFromLogin with its cache, for each content of the directory.
InitAccount ==
  /\ accountCache = [l \in Logins |-> NoAccountEntry]
  /\ acct = IdleAcct
  /\ persons \in [Logins -> 0..MaxPersons]
  /\ StoreIdle /\ ProbeUnused /\ EventUnused /\ RelayUnused /\ SyncUnused /\ TreeUnused /\ RaceUnused /\ CloseUnused /\ ChainUnused /\ BootUnused /\ AuthzUnused

NextAccount ==
  \/ \E l \in Logins : AccountFromLogin(l)
  \/ \E e \in SearchEnds : AccountSearchEnd(e)
  \/ AccountDone
  \/ \E l \in Logins : ExpireAccount(l)

SpecAccount == InitAccount /\ [][NextAccount]_vars

\* A request through the handler chain of its route, for each content of
\* the directory.
NextChain ==
  \/ \E r \in Routes, l \in Logins : Setup(r, l)
  \/ \E e \in SearchEnds : AccountSearchEnd(e)
  \/ SetupCb
  \/ Ping
  \/ GetAccount
  \/ LogW3c
  \/ ChainFinish
  \/ \E l \in Logins : ExpireAccount(l)

SpecChain == InitAccount /\ [][NextChain]_vars

\* The bootstrap script from its first step.
NextBoot ==
  \/ \E ok \in BOOLEAN : BootStep(ok)
  \/ CreateDevzone
  \/ \E o \in ZoneStatuses \cup {"error", "none"} : ListZonesCb(o)
  \/ \E ok \in BOOLEAN : ListServersCb(ok)
  \/ \E ok \in BOOLEAN, z \in ZoneStatuses \cup {NoVal} : CreateZoneCb(ok, z)
  \/ PollTimer
  \/ \E o \in ZoneStatuses \cup {"error"} : GetZoneCb(o)

SpecBoot == Init /\ [][NextBoot]_vars

\* Timers fire and MAPI answers every call.
FairBoot ==
  /\ WF_vars(PollTimer)
  /\ WF_vars(\E o \in ZoneStatuses \cup {"error"} : GetZoneCb(o))

SpecBootLive == SpecBoot /\ FairBoot

\* Event dispatch at the Master, for each contact list of the monitor.
InitEvent ==
  /\ mon \in ContactLists
  /\ ev = IdleEv
  /\ evlog = [u \in EventUuids |-> NoFirst]
  /\ StoreIdle /\ ProbeUnused /\ AccountUnused /\ RelayUnused /\ SyncUnused /\ TreeUnused /\ RaceUnused /\ CloseUnused /\ ChainUnused /\ BootUnused /\ AuthzUnused

NextEvent ==
  \/ \E u \in EventUuids : PostEvent(u)
  \/ FakeFault
  \/ \E o \in MonitorOutcomes : FakeMonitorGetCb(o)
  \/ \E o \in MonitorOutcomes : MonitorGetCb(o)
  \/ \E i \in 1..MaxContacts : ContactGetCb(i)
  \/ \E i \in 1..MaxContacts : NotifyCb(i)
  \/ EventFinish

SpecEvent == InitEvent /\ [][NextEvent]_vars

\* The relay's /agentprobes endpoints, for each content of its data files.
InitRelay ==
  /\ rl \in {IdleRelay(m, j) : m \in [Targets -> Md5Contents],
                               j \in [Targets -> JsonContents]}
  /\ StoreIdle /\ ProbeUnused /\ AccountUnused /\ EventUnused /\ SyncUnused /\ TreeUnused /\ RaceUnused /\ CloseUnused /\ ChainUnused /\ BootUnused /\ AuthzUnused

NextRelay ==
  \/ \E t \in Targets : HeadAgentProbes(t)
  \/ \E f \in BOOLEAN : HeadReadCb(f)
  \/ \E t \in Targets : ListAgentProbes(t)
  \/ \E f \in BOOLEAN : ListReadCb(f)
  \/ RelayFinish

SpecRelay == InitRelay /\ [][NextRelay]_vars

\* A relay that starts without data files, its poll loops, and the agents'
\* requests, while the Master's probes change MaxChanges times.
InitSync ==
  /\ RelayUnused /\ TreeUnused /\ RaceUnused /\ CloseUnused /\ ChainUnused /\ BootUnused /\ AuthzUnused
  /\ pl \in {[master |-> m, changes |-> 0, changed |-> {},
                loop |-> [t \in Targets |-> IdleLoop]] :
               m \in [Targets -> Manifests]}
  /\ StoreIdle /\ ProbeUnused /\ AccountUnused /\ EventUnused /\ TreeUnused /\ RaceUnused /\ CloseUnused /\ ChainUnused /\ BootUnused /\ AuthzUnused

PollStep ==
  \/ \E t \in Targets : PollTick(t)
  \/ \E t \in Targets : PollFetchCb(t, TRUE)
  \/ \E t \in Targets : PollFetchCb(t, FALSE)
  \/ \E t \in Targets : PollWriteJson(t)
  \/ \E t \in Targets : PollWriteMd5(t)

NextSync ==
  \/ \E t \in Targets, b \in Manifests : MasterChange(t, b)
  \/ PollStep
  \/ NextRelay

SpecSync == InitSync /\ [][NextSync]_vars

\* The poll timer fires again and again, the Master answers a poll in the
\* end, each write and each request completes.
FairSync ==
  /\ \A t \in Targets :
       /\ WF_vars(PollTick(t))
       /\ SF_vars(PollFetchCb(t, TRUE))
       /\ WF_vars(PollWriteJson(t))
       /\ WF_vars(PollWriteMd5(t))
  /\ WF_vars(RelayFinish)

SpecSyncLive == SpecSync /\ FairSync

\* ------------------------------------------------------------------------
\* Properties
\* ------------------------------------------------------------------------

InTrace(e) == \E i \in 1..Len(req.trace) : req.trace[i] = e

\* The directory did not answer: it was unreachable or failed otherwise.
DirFailed(kind) == kind \in {"Unavailable", "Other"}

Done(op) == req.op = op /\ req.pc = "done"

\* C1: once a DELETE of an entity has succeeded, no cache entry for it is
\* left (its Get entry and its parent's List entry are gone when the DELETE
\* answers), and a GET at its DN never answers with the entity: it answers
\* ResourceNotFound, or with the error of a directory search that failed.
C1_GetAfterDelete ==
  /\ (Done("delete") /\ req.kind = NoVal)
       => ~getCache[req.dn].has /\ ~listCache[ParentOf(req.dn)].has
  /\ (Done("get") /\ lastWrite[req.dn].kind = "delete")
       => req.kind = "ResourceNotFound" \/ DirFailed(req.kind)

\* A GET answers ResourceNotFound after a DELETE that found the entity in
\* the Get cache and in the cached list of its parent.
C1_Witness ==
  /\ Done("get") /\ req.kind = "ResourceNotFound"
  /\ lastWrite[req.dn].kind = "delete"
  /\ lastWrite[req.dn].cached

\* C2: once a PUT of an entity has succeeded, a GET at its DN answers with
\* its public serialization and a LIST at its parent DN contains it; the
\* only other answer is the error of a directory search that failed.
C2_ReadAfterPut ==
  /\ (Done("get") /\ lastWrite[req.dn].kind = "put")
       => \/ req.kind = NoVal /\ req.body = lastWrite[req.dn].ser
          \/ DirFailed(req.kind)
  /\ Done("list")
       => \A dn \in Dns :
            (ParentOf(dn) = req.dn /\ lastWrite[dn].kind = "put")
              => \/ req.kind = NoVal /\ InList(lastWrite[dn].ser, req.list)
                 \/ DirFailed(req.kind)

\* A LIST contains an entity whose PUT found a cached ResourceNotFound at
\* its DN and a cached list of its parent without it.
C2_Witness ==
  /\ Done("list") /\ req.kind = NoVal
  /\ \E dn \in Dns :
       /\ lastWrite[dn].kind = "put" /\ lastWrite[dn].cached
       /\ InList(lastWrite[dn].ser, req.list)

\* C3: no cache (entity Get, entity List, account by login) holds an entry
\* that records an Unavailable error.
C3_NoUnavailableCached ==
  /\ \A dn \in Dns : getCache[dn].has => getCache[dn].err # "Unavailable"
  /\ \A p \in ParentDns : listCache[p].has => listCache[p].err # "Unavailable"
  /\ \A l \in Logins : accountCache[l].has => accountCache[l].err # "Unavailable"

\* C4: a valid, authorized PUT whose add the directory answers succeeds, and
\* the directory then holds the entity that was PUT, whether or not the DN
\* held an entity before.
C4_PutIsUpsert ==
  (Done("put") /\ InTrace("ufdsAdd") /\ ~DirFailed(req.kind))
    => req.kind = NoVal /\ ufds[req.dn] = req.item.raw

\* C5: authorizePut never grants a PUT that satisfies none of the three
\* rules, and when every lookup answers it grants exactly the PUTs that
\* satisfy one of them.
C5_GrantIffRule ==
  pauth.done =>
    LET rule == \/ Rule1(pres.item, pauth.w)
                \/ Rule2(pres.item, pauth.w)
                \/ Rule3(pres.item, pauth.w) IN
    /\ pauth.res.ok => rule
    /\ LookupsAnswer(pauth.w) => (pauth.res.ok <=> rule)

\* A PUT is granted by rule 3 alone: a machine of another account, a
\* runInGlobal type, an operator.
C5_Witness ==
  /\ pauth.done /\ pauth.res.ok
  /\ Rule3(pres.item, pauth.w)
  /\ ~Rule1(pres.item, pauth.w) /\ ~Rule2(pres.item, pauth.w)

\* C6: a PUT that satisfies none of the three rules, every lookup having
\* answered, is refused with InvalidArgument; a non-operator PUT of a
\* server-targeted probe is refused with InvalidArgument naming the operator
\* requirement; and no refusal has a kind other than InvalidArgument or
\* InternalError.
C6_RefusedAsInvalidArgument ==
  pauth.done =>
    LET rule == \/ Rule1(pres.item, pauth.w)
                \/ Rule2(pres.item, pauth.w)
                \/ Rule3(pres.item, pauth.w) IN
    /\ (LookupsAnswer(pauth.w) /\ ~rule)
         => ~pauth.res.ok /\ pauth.res.kind = "InvalidArgument"
    /\ (pres.item.raw.server # NoVal /\ ~pauth.w.failOp /\ ~pauth.w.operator)
         => /\ ~pauth.res.ok /\ pauth.res.kind = "InvalidArgument"
            /\ pauth.res.msg = "must be operator"
    /\ ~pauth.res.ok => pauth.res.kind \in {"InvalidArgument", "InternalError"}

\* A non-operator PUT of a server-targeted probe is refused.
C6_Witness ==
  /\ pauth.done /\ ~pauth.res.ok /\ pauth.res.kind = "InvalidArgument"
  /\ pres.item.raw.server # NoVal /\ ~pauth.w.operator
  /\ LookupsAnswer(pauth.w)

\* C7: every add and every delete sent to the directory comes after an
\* authorization check of the entity that succeeded in the same request.
C7_WritesAuthorized ==
  \A i \in 1..Len(req.trace) :
    req.trace[i] \in {"ufdsAdd", "ufdsDelete"}
      => \E j \in 1..(i - 1) : req.trace[j] = "authorized"

\* C8: in a PUT, authorizePut is started only after the model was
\* constructed, never for data that failed validation, and ufdsAdd is
\* started only right after authorizePut called back without error.
C8_PutOrder ==
  req.op = "put" =>
    /\ \A i \in 1..Len(req.trace) :
         /\ req.trace[i] = "authorizePut"
              => i = 2 /\ req.trace[1] = "new Model" /\ req.item.ok
         /\ req.trace[i] = "ufdsAdd"
              => i = 4 /\ req.trace[3] = "authorized"
                 /\ req.trace[2] = "authorizePut"
    /\ InTrace("new Model threw") => Len(req.trace) = 1 /\ req.pc = "done"
    /\ req.pc = "add" => InTrace("authorized")
    /\ (req.pc = "done" /\ req.kind = NoVal) => InTrace("ufdsAdd")

\* A PUT went through construction, authorization and the add, and succeeded.
C8_Witness ==
  /\ Done("put") /\ req.kind = NoVal
  /\ req.trace = <<"new Model", "authorizePut", "authorized", "ufdsAdd">>

\* C9: every constructed Probe, from public input or from a directory
\* record, has exactly one of machine and server set.
C9_ExactlyOneTarget ==
  (pres.done /\ pres.item.ok)
    => (pres.item.raw.machine # NoVal) # (pres.item.raw.server # NoVal)

\* A Probe is constructed from a directory record that names a server.
C9_Witness ==
  /\ pres.done /\ pres.item.ok
  /\ pin.objectclass = ProbeObjectclass
  /\ pres.item.raw.server = ServerA /\ pres.item.raw.machine = NoVal

\* The constructor hands pin's fields to Probe.validate with a name and a
\* type: nothing before validate threw.
ReachesValidate ==
  /\ pin.type # NoVal
  /\ IF pin.objectclass # NoVal
       THEN pin.objectclass = ProbeObjectclass /\ ValidateNameOk(pin.amonprobe)
       ELSE ValidateNameOk(pin.name) /\ pin.monitor # NoVal /\ pin.user # NoVal

\* C10: validation of data with a name and a type fails with
\* MissingParameter when neither machine nor server is given and with
\* InvalidArgument when both are, whatever the type and the config are.
C10_TargetErrors ==
  (pres.done /\ ReachesValidate) =>
    /\ (pin.machine = NoVal /\ pin.server = NoVal)
         => /\ ~pres.item.ok /\ pres.item.kind = "MissingParameter"
            /\ pres.item.msg = "must specify one of machine or server"
    /\ (pin.machine # NoVal /\ pin.server # NoVal)
         => /\ ~pres.item.ok /\ pres.item.kind = "InvalidArgument"
            /\ pres.item.msg = "must specify only one of machine or server"

\* Data with an unknown type, an invalid config and no target fails with
\* MissingParameter.
C10_Witness ==
  /\ pres.done /\ ReachesValidate
  /\ pin.type = "bogus" /\ pin.config = ObjBad
  /\ pin.machine = NoVal /\ pin.server = NoVal
  /\ pres.item.kind = "MissingParameter"

\* C11: every constructed Probe, from public input or from a directory
\* record, has global set if and only if the registry entry of its type
\* declares runInGlobal.
C11_GlobalIffRunInGlobal ==
  (pres.done /\ pres.item.ok)
    => (pres.item.raw.global # NoVal <=> RunInGlobal(pres.item.raw.type))

\* The directory record names its own DN: the amonprobe attribute is the
\* value of the first RDN, as the directory keeps it.
NativeRecord ==
  pin.objectclass = ProbeObjectclass /\ pin.amonprobe = ParseDn(pin.dn).name

\* C12: a Probe built from a directory record and the Probe built from its
\* serialize(true) through the public branch have the same DN, user,
\* monitor, name, type, machine, server, config and global.
C12_RoundTrip ==
  (prt.done /\ NativeRecord) =>
    /\ prt.item.ok
    /\ prt.item.dn = pres.item.dn
    /\ prt.item.user = pres.item.user
    /\ prt.item.monitor = pres.item.monitor
    /\ prt.item.raw.amonprobe = pres.item.raw.amonprobe
    /\ prt.item.raw.type = pres.item.raw.type
    /\ prt.item.raw.machine = pres.item.raw.machine
    /\ prt.item.raw.server = pres.item.raw.server
    /\ ProbeConfig(prt.item) = ProbeConfig(pres.item)
    /\ prt.item.raw.global = pres.item.raw.global

\* C13: the entity of a PUT is stored under the DN of the route and the
\* session account, whatever keys the body has.
C13_RouteWinsIdentity ==
  (req.op = "put" /\ req.item.ok)
    => /\ req.item.dn = req.dn
       /\ req.item.user = UuidBob
       /\ req.item.monitor = MonitorW

\* C14: no answer of get, put or list carries the field global; the
\* internal serialization of the entity carries global exactly when the
\* Probe's global is set, and agrees with the public one elsewhere.
C14_GlobalOnlyInternal ==
  /\ (req.pc = "done" /\ req.kind = NoVal)
       => /\ req.body.global = NoVal
          /\ \A i \in 1..Len(req.list) : req.list[i].global = NoVal
  /\ req.item.ok =>
       LET pub == Serialize(req.item, FALSE)
           int == Serialize(req.item, TRUE) IN
       /\ pub.global = NoVal
       /\ int.global # NoVal <=> req.item.raw.global # NoVal
       /\ int.global # NoVal => int.global = req.item.raw.global
       /\ [int EXCEPT !.global = NoVal] = pub

\* A PUT of a runInGlobal probe is answered without global, and a list
\* holds it without global.
C14_Witness ==
  /\ Done("put") /\ req.kind = NoVal
  /\ req.item.raw.global = "TRUE"
  /\ req.body.type = "machine-up" /\ req.body.global = NoVal

\* The dispatch has called back and the monitor had been resolved.
Dispatched == ev.pc = "done" /\ ev.resolved

\* C15: when the dispatch of an event completes, every entry of
\* monitor.contacts that resolves and whose medium has a plugin has had its
\* notify call, and such an entry has it as soon as its own contact lookup
\* answered, whatever the other entries are and however far they got.
C15_EligibleNotified ==
  ev.resolved =>
    \A i \in 1..Len(mon) :
      Eligible(mon[i]) =>
        /\ ev.st[i] # "get" => ev.notified[i] >= 1
        /\ ev.pc = "done" => ev.notified[i] >= 1

\* The last of three contacts was notified; the first did not resolve and
\* the notify of the second failed.
C15_Witness ==
  /\ Dispatched /\ Len(mon) = 3
  /\ mon[1] = "noContact" /\ mon[2] = "notifyFails" /\ mon[3] = "ok"
  /\ ev.notified[3] = 1

\* C16: a dispatch whose monitor is not resolved reports no error to its
\* caller, makes no notify call and does not end in an InternalError answer.
C16_UnresolvedDropped ==
  (ev.pc = "done" /\ ev.dispatched /\ ~ev.resolved)
    => /\ ev.err = NoVal
       /\ NotifyCalls(ev) = 0
       /\ ev.response # "InternalError"

\* C17: once the monitor is resolved, processEvent calls back without an
\* error (and the fake fault answers success), whatever happened to the
\* contacts.
C17_SuccessOnceResolved ==
  Dispatched =>
    /\ ev.err = NoVal
    /\ ev.source = "fakefault" => ev.response = "success"

\* A dispatch reports success although a contact did not resolve, a medium
\* had no plugin and a notify failed.
C17_Witness ==
  /\ Dispatched /\ ev.err = NoVal /\ ev.warned
  /\ \E i, j, k \in 1..Len(mon) :
       mon[i] = "noContact" /\ mon[j] = "noPlugin" /\ mon[k] = "notifyFails"

C19_ReplayIdempotent ==
  (ev.pc = "done" /\ ev.source = "event" /\ ev.replay)
    => /\ ev.err = evlog[ev.uuid].err
       /\ NotifyCalls(ev) = 0

\* C20: HEAD /agentprobes for a target without a .content-md5 file answers
\* 200 with the empty list, and for a target whose file is read it answers
\* 200 with Content-MD5 equal to the content of the file.
C20_HeadAgentProbes ==
  (rl.pc = "done" /\ rl.op = "head") =>
    /\ rl.md5[rl.target] = NoVal
         => rl.res.code = 200 /\ rl.res.body = EmptyList
    /\ (rl.md5[rl.target] # NoVal /\ rl.readErr = NoVal)
         => rl.res.code = 200 /\ rl.res.md5 = rl.md5[rl.target]

\* C21: GET /agentprobes answers 200 with the empty array when the target's
\* manifest file does not exist, 200 with the parsed content of the file
\* when it is read, and 500 only on a read error other than file-not-found.
C21_ListAgentProbes ==
  (rl.pc = "done" /\ rl.op = "list") =>
    /\ rl.json[rl.target] = NoVal
         => rl.res.code = 200 /\ rl.res.body = EmptyList
    /\ (rl.json[rl.target] # NoVal /\ rl.readErr = NoVal)
         => rl.res.code = 200 /\ rl.res.body = RelayParse(rl.json[rl.target])
    /\ rl.res.code = 500 => rl.readErr \notin {NoVal, "ENOENT"}
    /\ rl.res.code \in {200, 500}

C21_Witness ==
  /\ rl.pc = "done" /\ rl.op = "list"
  /\ rl.json[rl.target] = NoVal
  /\ rl.res.code = 200 /\ rl.res.body = EmptyList

\* The hash file of target t holds the hash of what its manifest file holds.
PairMatches(t) ==
  rl.md5[t] = IF rl.json[t] = NoVal THEN NoVal ELSE ContentMd5(rl.json[t])

Converged(t) ==
  /\ rl.json[t] = pl.master[t]
  /\ rl.md5[t] = ContentMd5(pl.master[t])
  /\ (rl.pc = "done" /\ rl.target = t /\ rl.readErr = NoVal) =>
       /\ rl.res.code = 200
       /\ rl.op = "head" => rl.res.md5 = ContentMd5(pl.master[t])
       /\ rl.op = "list" =>
            rl.res.body = IF pl.master[t] = JsonEmptyText THEN EmptyList
                                                          ELSE ProbeList

\* C23: once the Master's probes of the targets stay unchanged and the poll
\* loops keep running, from some point on HEAD /agentprobes answers the MD5
\* of the Master's manifest and GET /agentprobes the manifest itself.
C23_ManifestConverges ==
  <>[](\A t \in Targets : Converged(t))

C23_Witness ==
  /\ "zone-A" \in pl.changed /\ pl.master["zone-A"] = JsonEmptyText
  /\ rl.pc = "done" /\ rl.op = "list" /\ rl.target = "zone-A"
  /\ rl.res.code = 200 /\ rl.res.body = EmptyList
  /\ rl.md5["zone-A"] = ContentMd5(JsonEmptyText)
  /\ \A t \in Targets : Converged(t)

\* C24: a GET or DELETE at a DN that holds no entry in the directory, when
\* the directory answers (by a no-such-object error or by a search with
\* zero entries), fails with ResourceNotFound and never with InternalError.
C24_AbsentIsNotFound ==
  (req.pc = "done" /\ req.op \in {"get", "delete"}
     /\ ufds[req.dn] = NoRaw /\ req.kind # NoVal /\ ~DirFailed(req.kind))
    => req.kind = "ResourceNotFound"

\* C25: every probe entry of the directory lies under a monitor entry of
\* the same user: a Probe PUT under a monitor that does not exist adds no
\* probe, and a Monitor DELETE leaves no probe of the monitor behind.
C25_ProbeHasMonitor ==
  \A dn \in Dns :
    ufds[dn] # NoRaw => mons[ParentOf(dn)] # NoMonitorRaw

\* Is e among the calls the trace records?
TraceHas(trace, e) == \E i \in 1..Len(trace) : trace[i] = e

C27_DeleteFetchSkipsCache ==
  [][(req' # req /\ req'.op = "delete") =>
       /\ (req'.pc # "done" \/ req'.kind # NoVal)
            => UNCHANGED <<getCache, listCache>>
       /\ (req.pc \in {"idle", "search"} /\ ufds[req'.dn] # NoRaw)
            => req'.kind # "ResourceNotFound"
       /\ (req.pc = "idle") => req'.pc = "search"]_vars

\* A DELETE has removed an entity for whose DN the Get cache held
\* ResourceNotFound when the DELETE fetched it.
C27_Witness ==
  /\ req.op = "delete" /\ req.pc = "delete"
  /\ ufds[req.dn] # NoRaw
  /\ getCache[req.dn].has /\ getCache[req.dn].err = "ResourceNotFound"

\* C29: after a write of a DN has completed at the Master, the Get cache
\* does not hold what a search answered before the write: no
\* ResourceNotFound after a PUT, no entity after a DELETE.
C29_CacheNotPreWrite ==
  \A dn \in Dns :
    getCache[dn].has =>
      /\ lastWrite[dn].kind = "put" => getCache[dn].err # "ResourceNotFound"
      /\ lastWrite[dn].kind = "delete" => getCache[dn].err # NoVal

\* Every entry of monitor.contacts has been notified or skipped.
AllHandled == \A i \in 1..Len(ev.st) : ev.st[i] = "done"

\* C28: in whatever order the contact lookups and the notify callbacks of a
\* dispatch complete, processEvent's completion callback is called at most
\* once, not before every entry of monitor.contacts has been notified or
\* skipped, and it has been called once all of them have; with no entry it
\* is called once.
C28_CallbackOnceAfterAll ==
  ev.resolved =>
    /\ ev.called <= 1
    /\ ev.called = 1 => AllHandled
    /\ AllHandled => ev.called = 1 /\ ev.pc = "done"
    /\ Len(mon) = 0 => ev.called = 1

\* The third contact is done before the first was looked up and before the
\* notify of the second called back, and the callback has not been called.
C28_Witness ==
  /\ ev.resolved /\ Len(mon) = 3 /\ ev.called = 0
  /\ ev.st[1] = "get" /\ ev.st[2] = "notify" /\ ev.st[3] = "done"

\* C30: the callback of App.close is called at most once, only when the
\* server has emitted 'close' and the unbind has completed; the directory
\* client is bound as long as the server has not emitted 'close'; and once
\* close is called the callback is called in the end.
C30_CloseOrder ==
  /\ [](/\ cl.called <= 1
        /\ cl.called = 1 => cl.server = "closed" /\ cl.ufds = "unbound"
        /\ cl.ufds # "bound" => cl.server = "closed"
        /\ cl.ufds = "unbound" => cl.called = 1)
  /\ (cl.closeCalled ~> cl.called = 1)

C30_Witness ==
  /\ cl.closeCalled /\ cl.server = "closed" /\ cl.ufds = "unbound"
  /\ cl.called = 1

\* C31: on a route that holds :login, setup either sets req._account and
\* continues the chain, or sends exactly one error response (404, 500) and
\* the endpoint handler is not run; the endpoint handler never runs with
\* req._account unset.
C31_SetupGuardsEndpoint ==
  ch.route = RoutePub =>
    /\ ch.ran => ch.account # NoVal
    /\ (ch.sent # <<>> /\ ch.sent[1] \in {404, 500}) =>
         (~ch.ran /\ Len(ch.sent) = 1)
    /\ (ch.pc = "endpoint") => (ch.account # NoVal /\ ch.sent = <<>>)

\* C32: accountFromLogin calls back with (null, null) when no account
\* matches the login, with the account when exactly one matches, and with an
\* error when more than one matches or the search ends with a non-zero
\* status; the outcome is cached under the login, and a later call with the
\* entry still cached gets the same outcome without a search.
C32_AccountOutcome ==
  [][/\ (acct.pc = "searching" /\ acct'.pc = "done") =>
          LET l == acct.login
              n == persons[l]
          IN /\ acct'.login = l
             /\ (acct'.ending = "end" /\ n = 0) =>
                  (acct'.err = NoVal /\ acct'.account = NoVal)
             /\ (acct'.ending = "end" /\ n = 1) =>
                  (acct'.err = NoVal /\ acct'.account = l)
             /\ (acct'.ending = "end nonzero" \/ n > 1) =>
                  (acct'.err # NoVal /\ acct'.account = NoVal)
             /\ accountCache'[l] =
                  [has |-> TRUE, err |-> acct'.err, account |-> acct'.account]
     /\ (acct.pc = "idle" /\ acct'.pc = "done") =>
          /\ ~acct'.searched
          /\ accountCache[acct'.login].has
          /\ acct'.err = accountCache[acct'.login].err
          /\ acct'.account = accountCache[acct'.login].account
          /\ accountCache' = accountCache
     /\ (acct.pc = "idle" /\ acct'.pc = "searching") =>
          ~accountCache[acct'.login].has]_vars

\* A call answered from the cache with the account that a search found.
C32_Witness ==
  /\ acct.pc = "done"
  /\ ~acct.searched
  /\ acct.account = acct.login
  /\ persons[acct.login] = 1

\* A lookup that authorizePut made failed unexpectedly: the machine lookup
\* with an error other than not-found, the operator lookup, or the
\* server-exists lookup.
LookupFailed(res, w) ==
  \E i \in 1..Len(res.lookups) :
    \/ res.lookups[i] = "getMachine" /\ w.failMapi
    \/ res.lookups[i] = "isOperator" /\ w.failOp
    \/ res.lookups[i] = "serverExists" /\ w.failSrv

\* C33: in authorizePut an unexpected failure of an authorization lookup
\* never authorizes the PUT and is reported as InternalError, not as
\* InvalidArgument.
C33_LookupFailureIsInternal ==
  (pauth.done /\ LookupFailed(pauth.res, pauth.w)) =>
    (~pauth.res.ok /\ pauth.res.kind = "InternalError")

\* The lookups of the rule-3 chain in the order of the chain, up to and
\* including the first check that fails.
Rule3Lookups(item, w) ==
  IF ~RunInGlobal(item.raw.type) THEN <<>>
  ELSE IF ~(w.exists /\ ~w.failMapiAny) THEN <<"getMachineAny">>
  ELSE <<"getMachineAny", "isOperator">>

\* The lookups authorizePut makes for a probe, given what they answer.
PathLookups(item, w) ==
  IF item.raw.machine # NoVal
    THEN IF w.failMapi \/ w.owns THEN <<"getMachine">>
         ELSE <<"getMachine">> \o Rule3Lookups(item, w)
  ELSE IF item.raw.server # NoVal
    THEN IF w.failOp \/ ~w.operator THEN <<"isOperator">>
         ELSE <<"isOperator", "serverExists">>
  ELSE <<>>

IsPrefix(p, q) == Len(p) <= Len(q) /\ SubSeq(q, 1, Len(p)) = p

\* C34: authorizePut calls its callback exactly once on every path when
\* each lookup calls back once; the checks of the rule-3 chain run in the
\* order runInGlobal, machine exists, operator, and the first check that
\* fails stops the later lookups.
C34_CallbackOncePerPath ==
  /\ [](az.calls <= 1)
  /\ []((az.pc = "done") <=> (az.calls = 1))
  /\ [](az.pc # "idle" => IsPrefix(az.res.lookups, PathLookups(az.item, az.w)))
  /\ [](az.pc = "done" => az.res.lookups = PathLookups(az.item, az.w))
  /\ ((az.pc \notin {"idle", "done"}) ~> (az.pc = "done" /\ az.calls = 1))

\* The rule-3 chain stopped at the machine that does not exist: the
\* operator lookup was not made and the callback was called once.
C34_Witness ==
  /\ az.pc = "done" /\ az.calls = 1
  /\ az.res.lookups = <<"getMachine", "getMachineAny">>
  /\ ~az.res.ok
  /\ az.w.operator

\* The result of authorizePut from lookup to lookup is the result of
\* AuthorizePut.
AuthzAgrees == az.pc = "done" => az.res = AuthorizePut(az.item, az.w)

\* The public serializations of the entries under a parent DN that
\* construct, in the order of the directory.
ValidAt(u, dn) == u[dn] # NoRaw /\ ProbeNew(AsEntry(dn, u[dn])).ok

PublicAt(u, dn) == Serialize(ProbeNew(AsEntry(dn, u[dn])), FALSE)

ExpectedList(u, parent) ==
  LET dns == SelectSeq(DnOrder,
                       LAMBDA dn : ParentOf(dn) = parent /\ ValidAt(u, dn)) IN
  [i \in 1..Len(dns) |-> PublicAt(u, dns[i])]

\* A step that answers a request from the cache, and a step that answers it
\* from the directory search.
GetHit == req.pc = "idle" /\ req'.op = "get" /\ req'.pc = "done"
ListHit == req.pc = "idle" /\ req'.op = "list" /\ req'.pc = "done"
GetSearched == req.op = "get" /\ req.pc = "search" /\ req'.pc = "done"
ListSearched == req.op = "list" /\ req.pc = "search" /\ req'.pc = "done"

\* C35: with no write in between, a GET or LIST answered from the cache
\* returns the same public serialization, or the same error, as the read
\* that populated the entry and as a read of the directory past the cache.
C35_CacheTransparent ==
  [][/\ (GetSearched /\ getCache'[req.dn].has) =>
          /\ getCache'[req.dn].err = req'.kind
          /\ req'.kind = NoVal => getCache'[req.dn].data = req'.body
     /\ (ListSearched /\ listCache'[req.dn].has) =>
          /\ listCache'[req.dn].err = req'.kind
          /\ req'.kind = NoVal => listCache'[req.dn].data = req'.list
     /\ GetHit =>
          LET e == getCache[req'.dn] IN
          /\ e.has /\ getCache' = getCache
          /\ req'.kind = e.err
          /\ e.err = NoVal =>
               /\ req'.body = e.data
               /\ ValidAt(ufds, req'.dn)
               /\ req'.body = PublicAt(ufds, req'.dn)
          /\ e.err = "ResourceNotFound" => ufds[req'.dn] = NoRaw
     /\ ListHit =>
          LET e == listCache[req'.dn] IN
          /\ e.has /\ listCache' = listCache
          /\ req'.kind = e.err
          /\ e.err = NoVal =>
               /\ req'.list = e.data
               /\ req'.list = ExpectedList(ufds, req'.dn)]_vars

\* A GET answered with the probe while the Get cache holds it, for a record
\* whose global attribute the public serialization leaves out.
C35_Witness ==
  /\ req.op = "get" /\ req.pc = "done" /\ req.kind = NoVal
  /\ getCache[req.dn].has /\ getCache[req.dn].data = req.body
  /\ ufds[req.dn] = RawStaleGlobal(req.dn)

\* Cached data constructs.
Constructs(data) == ProbeNew(AsData(data)).ok

\* C36: a read that finds a cached entry whose data does not construct
\* deletes the entry and goes on to the directory search, the construction
\* error is not returned; a read that ends with InternalError leaves no
\* entry in the cache.
C36_CorruptEntryDropped ==
  [][/\ (req.pc = "idle" /\ req'.op = "get" /\ getCache[req'.dn].has
          /\ getCache[req'.dn].err = NoVal
          /\ ~Constructs(getCache[req'.dn].data)) =>
          (req'.pc = "search" /\ req'.kind = NoVal /\ ~getCache'[req'.dn].has)
     /\ (req.pc = "idle" /\ req'.op = "list" /\ listCache[req'.dn].has
          /\ listCache[req'.dn].err = NoVal
          /\ \E i \in 1..Len(listCache[req'.dn].data) :
                ~Constructs(listCache[req'.dn].data[i])) =>
          (req'.pc = "search" /\ req'.kind = NoVal /\ ~listCache'[req'.dn].has)
     /\ (GetSearched /\ req'.kind = "InternalError") => ~getCache'[req.dn].has
     /\ (ListSearched /\ req'.kind = "InternalError") => ~listCache'[req.dn].has
     /\ (GetSearched /\ req'.kind = NoVal) => req'.body = PublicAt(ufds, req.dn)
     /\ (ListSearched /\ req'.kind = NoVal) =>
          req'.list = ExpectedList(ufds, req.dn)]_vars

\* A GET of a record that does not construct ended with InternalError and
\* the Get cache holds nothing for its DN.
C36_Witness ==
  /\ req.op = "get" /\ req.pc = "done" /\ req.kind = "InternalError"
  /\ ufds[req.dn] = RawBogus(req.dn)
  /\ ~getCache[req.dn].has

\* C37: LIST returns the entries under the parent DN that construct, in
\* directory order; a record that does not construct is skipped and does
\* not make the LIST fail; the cached list holds the same items.
C37_ListSkipsInvalid ==
  [][(ListSearched /\ req'.kind # "Unavailable" /\ req'.kind # "Other") =>
       /\ req'.kind = NoVal
       /\ req'.list = ExpectedList(ufds, req.dn)
       /\ listCache'[req.dn] =
            [has |-> TRUE, err |-> NoVal, data |-> ExpectedList(ufds, req.dn)]]_vars

\* A LIST answered with one probe while the directory holds that probe and
\* a record that does not construct.
C37_Witness ==
  /\ req.op = "list" /\ req.pc = "done" /\ req.kind = NoVal
  /\ Len(req.list) = 1
  /\ ufds[DnP] = RawBogus(DnP) /\ ufds[DnQ] = RawGood(DnQ)
  /\ listCache[req.dn].has /\ listCache[req.dn].data = req.list

\* The wait for the new zone is in progress.
InWait == bs.pc \in {"timer", "getZone"}

\* createDevzone called next() without an error after creating a zone.
WaitSucceeded ==
  /\ bs.zone # NoVal
  /\ bs.pc \in {"series", "done"}
  /\ bs.step > 10 \/ bs.pc = "done"

\* The script exited while createDevzone had a new zone.
WaitFailed == bs.zone # NoVal /\ bs.pc = "exited" /\ bs.step = 10

\* C38: the wait for a newly created zone terminates: the zone status is
\* polled at most 30 times, the wait finishes without an error only when
\* the zone's running_status is 'running', otherwise it finishes with an
\* error (a failed poll, or 'took too long'), and then no later step of the
\* bootstrap runs.
C38_WaitTerminates ==
  /\ [](bs.polls <= 30)
  /\ [](WaitSucceeded => (bs.zone = "running" /\ bs.devzone = "running"))
  /\ [](WaitFailed => /\ bs.zone # "running"
                      /\ bs.err \in {TookTooLong, "getZone error"})
  /\ [](bs.pc = "exited" => bs.err # NoVal)
  /\ [][bs.pc = "exited" => bs' = bs]_vars
  /\ (InWait ~> ~InWait)

\* The zone never came up: the wait gave up after its last poll and the
\* script exited in createDevzone.
C38_Witness ==
  /\ WaitFailed
  /\ bs.err = TookTooLong
  /\ bs.polls = Sentinel - 1
  /\ BootSteps[bs.step] = "createDevzone"

====
